---- MODULE Spec2Model ----
(***************************************************************************)
(* A model of the retrieval-routing and tabular-reasoning subsystem of the *)
(* outlook-chatbot backend (intent router, /ask orchestration, ingestion,  *)
(* tabular loader with its byte cache, two-tier tabular reasoner).         *)
(*                                                                         *)
(* Python strings are sequences of one-character strings, so that lower(), *)
(* strip(), "x in s" and endswith() are computed, not assumed.             *)
(* Confidences are integers in hundredths (0.7 is 70).                     *)
(***************************************************************************)
EXTENDS Integers, Sequences, FiniteSets, TLC

VARIABLES
    question,   \* router: the question given to classify_intent
    llmOut,     \* router: outcome of the primary model call
    routed,     \* router: what classify_intent returned (or raised)
    rpc,        \* router: "idle" before the call, "done" after it
    cache,      \* loader: data_cache._data_cache, key -> bytes
    loadSpecs,  \* loader: the table_specs given to load_dataframes
    loadRes,    \* loader: what the last load_dataframes call returned
    fetchLog,   \* loader: the downloads the last call issued, in order
    nLoads,     \* loader: number of load_dataframes calls so far
    tabQ,       \* reasoner: the question given to answer_with_pandasai
    tabTables,  \* reasoner: the (label, DataFrame) pairs given to it
    tabEnv,     \* reasoner: the environment of the call
    tabRes,     \* reasoner: the result it returned
    tpc,        \* reasoner: "idle" before the call, "done" after it
    worker,     \* reasoner: the thread that runs Tier A: "none", "running",
                \* "hung" (it never completes) or "finished"
    tabCalls,   \* reasoner: the analyses the call invoked, in order
    MAIL_BODIES,              \* service: the mail-body collection
    ATTACHMENTS_SEMANTIC,     \* service: the semantic-attachment collection
    ATTACHMENTS_TABULAR_IDX,  \* service: the tabular index collection
    askEnv,     \* service: what the collaborators of the last /ask did
    askRes,     \* service: what the last /ask returned, or that it raised
    askLog,     \* service: the collaborator calls of the last /ask, in order
    retFirst,   \* retriever: the first of two topk_from_collection calls
    retSecond,  \* retriever: the second of the two calls
    promptQ,    \* prompt: the question given to _build_prompt
    promptCtx,  \* prompt: the contexts given to it
    prompt,     \* prompt: the string it returned
    ppc,        \* prompt: "idle" before the call, "done" after it
    resetPc,    \* vector store: "idle" before reset_all, "done" after it
    raceKind,   \* cache race: what each of the two threads runs: "load" or "ingest"
    racePc,     \* cache race: where each thread is
    raceData,   \* cache race: the bytes each thread downloaded
    raceRead,   \* cache race: what each thread's cache lookup returned (<<>>: a
                \* miss, or no lookup yet)
    raceLast,   \* cache race: the bytes of the last cache write, <<>> before any
    collection,   \* main.py: the "emails" collection
    seen_hashes,  \* main.py: the content hashes of the chunks seen so far
    ingestReq,    \* main.py: the last /ingest request
    ingestRes,    \* main.py: what the last /ingest returned, or that it raised
    nMainIngests, \* main.py: number of /ingest requests so far
    aqQuestion, \* analysis detection: the question given to is_analysis_question
    aqResult,   \* analysis detection: <<>> before the call, then <<what it returned>>
    cacheWrites,  \* byte cache: the cache_blob_data calls so far, in order
    ckWords,    \* chunk_text: words, the words of the text
    ckMaxWords, \* chunk_text: its max_words argument
    ckOverlap,  \* chunk_text: its overlap argument
    ckStart,    \* chunk_text: the loop variable start
    ckChunks,   \* chunk_text: chunks, the chunks appended so far
    cpc,        \* chunk_text: "loop" at the loop test, "done" when it returned,
                \* "raised" when it ended with an exception
    nIngests,   \* service: number of ingestion requests so far
    nAsks       \* service: number of /ask requests so far

routerVars == <<question, llmOut, routed, rpc>>
loadVars == <<cache, loadSpecs, loadRes, fetchLog, nLoads>>
tabVars == <<tabQ, tabTables, tabEnv, tabRes, tpc, worker, tabCalls>>
collVars == <<MAIL_BODIES, ATTACHMENTS_SEMANTIC, ATTACHMENTS_TABULAR_IDX>>
retVars == <<retFirst, retSecond>>
promptVars == <<promptQ, promptCtx, prompt, ppc>>
raceVars == <<raceKind, racePc, raceData, raceRead, raceLast>>
mainVars == <<collection, seen_hashes, ingestReq, ingestRes, nMainIngests>>
kwVars == <<aqQuestion, aqResult>>
chunkVars == <<ckWords, ckMaxWords, ckOverlap, ckStart, ckChunks, cpc>>
lateVars == <<kwVars, cacheWrites, chunkVars>>
auxVars == <<resetPc, raceVars, mainVars, lateVars>>
askVars == <<askEnv, askRes, askLog, retVars, promptVars, auxVars, nIngests, nAsks>>
apiVars == <<collVars, askVars>>
vars == <<routerVars, loadVars, tabVars, apiVars>>

----------------------------------------------------------------------------
(* Python string primitives                                                *)

UpperChars == <<"A","B","C","D","E","F","G","H","I","J","K","L","M",
                "N","O","P","Q","R","S","T","U","V","W","X","Y","Z">>
LowerChars == <<"a","b","c","d","e","f","g","h","i","j","k","l","m",
                "n","o","p","q","r","s","t","u","v","w","x","y","z">>

LowerChar(c) ==
    IF \E i \in 1..Len(UpperChars) : UpperChars[i] = c
    THEN LowerChars[CHOOSE i \in 1..Len(UpperChars) : UpperChars[i] = c]
    ELSE c

\* str.lower()
Lower(s) == [i \in 1..Len(s) |-> LowerChar(s[i])]

\* "h in s" for strings: h occurs as a contiguous substring of s
Contains(h, s) ==
    \E i \in 1..(Len(s) - Len(h) + 1) : SubSeq(s, i, i + Len(h) - 1) = h

\* s.endswith(t)
EndsWith(s, t) ==
    /\ Len(t) <= Len(s)
    /\ SubSeq(s, Len(s) - Len(t) + 1, Len(s)) = t

Whitespace == {" ", "\t", "\n", "\r"}

RECURSIVE LStrip(_)
LStrip(s) ==
    IF s # <<>> /\ Head(s) \in Whitespace THEN LStrip(Tail(s)) ELSE s

RECURSIVE RStrip(_)
RStrip(s) ==
    IF s # <<>> /\ s[Len(s)] \in Whitespace
    THEN RStrip(SubSeq(s, 1, Len(s) - 1))
    ELSE s

\* str.strip()
Strip(s) == RStrip(LStrip(s))

RECURSIVE Concat(_)
Concat(ss) == IF ss = <<>> THEN <<>> ELSE Head(ss) \o Concat(Tail(ss))

----------------------------------------------------------------------------
(* Intent router: backend/rag/router.py                                    *)

MAIL_BODY_SEMANTIC ==
    <<"m","a","i","l","_","b","o","d","y","_","s","e","m","a","n","t","i","c">>
ATTACHMENT_TABULAR ==
    <<"a","t","t","a","c","h","m","e","n","t","_","t","a","b","u","l","a","r">>
ATTACHMENT_SEMANTIC ==
    <<"a","t","t","a","c","h","m","e","n","t","_","s","e","m","a","n","t","i","c">>
UNKNOWN == <<"u","n","k","n","o","w","n">>

Route == {MAIL_BODY_SEMANTIC, ATTACHMENT_TABULAR, ATTACHMENT_SEMANTIC, UNKNOWN}

TABULAR_HINTS == {
      <<"s","u","m">>,
      <<"a","v","e","r","a","g","e">>,
      <<"a","v","g">>,
      <<"m","e","a","n">>,
      <<"m","e","d","i","a","n">>,
      <<"m","a","x">>,
      <<"m","i","n">>,
      <<"c","o","u","n","t">>,
      <<"t","o","p">>,
      <<"t","r","e","n","d">>,
      <<"b","y"," ">>,
      <<"g","r","o","u","p">>,
      <<"g","r","o","u","p","e","d">>,
      <<"a","g","g","r","e","g","a","t","e">>,
      <<"p","i","v","o","t">>,
      <<"t","a","b","l","e">>,
      <<"s","h","e","e","t">>,
      <<"e","x","c","e","l">>,
      <<"c","s","v">>,
      <<"f","i","l","t","e","r">>,
      <<"w","h","e","r","e">>,
      <<"p","e","r"," ">>,
      <<"v","s"," ">>,
      <<"c","o","m","p","a","r","e">>,
      <<"c","o","r","r","e","l","a","t","i","o","n">> }

W_attachment == <<"a","t","t","a","c","h","m","e","n","t">>
W_pdf == <<"p","d","f">>
W_mail == <<"m","a","i","l">>

\* What a function call yields: a returned (route, confidence) or an exception
\* A Python float: a number (in hundredths) or NaN
Num(n) == [t |-> "num", v |-> n]
NaN == [t |-> "nan", v |-> 0]

Ret(r, c) == [exc |-> FALSE, route |-> r, conf |-> c]
Raise == [exc |-> TRUE, route |-> <<>>, conf |-> Num(0)]

\* A mutant of the heuristic: the attachment/pdf test moved before the hint test
Heuristic_AttachmentFirst(q0) ==
    LET q == Lower(q0) IN
    IF Strip(q) = <<>> THEN Ret(UNKNOWN, Num(0))
    ELSE IF Contains(W_attachment, q) \/ Contains(W_pdf, q)
         THEN Ret(ATTACHMENT_SEMANTIC, Num(60))
    ELSE IF \E h \in TABULAR_HINTS : Contains(h, q)
         THEN Ret(ATTACHMENT_TABULAR, Num(70))
    ELSE Ret(MAIL_BODY_SEMANTIC, Num(60))

_classify_intent_heuristic(q0) ==
    LET q == Lower(q0) IN
    IF Strip(q) = <<>> THEN Ret(UNKNOWN, Num(0))
    ELSE IF \E h \in TABULAR_HINTS : Contains(h, q)
         THEN Ret(ATTACHMENT_TABULAR, Num(70))
    ELSE IF Contains(W_attachment, q) \/ Contains(W_pdf, q)
         THEN Ret(ATTACHMENT_SEMANTIC, Num(60))
    ELSE Ret(MAIL_BODY_SEMANTIC, Num(60))

\* The outcome of the primary model call, as _classify_intent_llm reads it.
\*   kind   "raise": no API key, generate_content raised, or resp.text raised
\*          "text" : a response text came back
\*   parse  how json.loads takes the text: "invalid" (raises), "nonobject"
\*          (a list, number or string: obj.get raises), "object" (a dict)
\*   prose  the text outside the JSON object (the whole text when there is none)
\*   route  the "route" member: <<>> when absent, else <<string>>
\*   cnf    the "confidence" member: <<>> when absent, else <<v>> with v a float
\*          or [t |-> "str"] for a value float() rejects
\*   reason the "reason" member
S_empty == <<>>
S_tabular_padded == <<" ">> \o ATTACHMENT_TABULAR \o <<" ">>
S_semantic_upper == <<"A","T","T","A","C","H","M","E","N","T","_","S","E","M","A","N","T","I","C">>
S_spreadsheet == <<"s","p","r","e","a","d","s","h","e","e","t">>
S_see_mail == <<"s","e","e"," ","M","a","i","l">>
S_high == [t |-> "str", v |-> 0]

ProseTexts == {S_empty, S_see_mail, ATTACHMENT_TABULAR, S_semantic_upper, S_spreadsheet}
RouteMembers == {<<>>, <<MAIL_BODY_SEMANTIC>>, <<ATTACHMENT_TABULAR>>, <<ATTACHMENT_SEMANTIC>>,
                 <<UNKNOWN>>, <<S_tabular_padded>>, <<S_semantic_upper>>, <<S_spreadsheet>>}
ConfMembers == {<<>>, <<Num(-50)>>, <<Num(0)>>, <<Num(35)>>, <<Num(100)>>, <<Num(250)>>,
                <<NaN>>, <<S_high>>}
ReasonTexts == {S_empty, S_see_mail}

LlmOutcomes ==
    [kind : {"raise"}, parse : {"invalid"}, prose : {S_empty},
     route : {<<>>}, cnf : {<<>>}, reason : {S_empty}]
    \cup [kind : {"text"}, parse : {"invalid", "nonobject"}, prose : ProseTexts,
          route : {<<>>}, cnf : {<<>>}, reason : {S_empty}]
    \cup [kind : {"text"}, parse : {"object"}, prose : {S_empty, S_see_mail},
          route : RouteMembers, cnf : ConfMembers, reason : ReasonTexts]

\* Python's x < y on floats: every comparison with NaN is false
FLess(x, y) == x.t = "num" /\ y.t = "num" /\ x.v < y.v
\* min(x, y) and max(x, y) of two arguments, as the builtin iterates
PyMin(x, y) == IF FLess(y, x) THEN y ELSE x
PyMax(x, y) == IF FLess(x, y) THEN y ELSE x

\* "lbl in t" for t = text.lower(): the text's pieces are separated by JSON
\* punctuation, so a label occurs in the text iff it occurs in a piece
TextPieces(out) ==
    {out.prose, out.reason} \cup {out.route[i] : i \in 1..Len(out.route)}
InText(lbl, out) == \E p \in TextPieces(out) : Contains(lbl, Lower(p))

\* router.py 77-87: plain label detection on the response text
LabelDetection(out) ==
    IF InText(ATTACHMENT_TABULAR, out) THEN Ret(ATTACHMENT_TABULAR, Num(60))
    ELSE IF InText(ATTACHMENT_SEMANTIC, out) THEN Ret(ATTACHMENT_SEMANTIC, Num(60))
    ELSE IF InText(MAIL_BODY_SEMANTIC, out) \/ InText(W_mail, out)
         THEN Ret(MAIL_BODY_SEMANTIC, Num(60))
    ELSE Ret(UNKNOWN, Num(40))

\* A mutant of the primary path: the parsed label and confidence are returned
\* as they come, neither coerced nor clamped
ClassifyLlm_NoClamp(q, out) ==
    IF out.kind = "raise" THEN Raise
    ELSE IF out.parse # "object" THEN LabelDetection(out)
    ELSE IF out.cnf # <<>> /\ out.cnf[1].t = "str" THEN LabelDetection(out)
    ELSE Ret(IF out.route = <<>> THEN UNKNOWN ELSE Strip(out.route[1]),
             IF out.cnf = <<>> THEN Num(50) ELSE out.cnf[1])

_classify_intent_llm(q, out) ==
    IF out.kind = "raise" THEN Raise
    ELSE IF out.parse # "object" THEN LabelDetection(out)
    ELSE LET r0 == IF out.route = <<>> THEN UNKNOWN ELSE Strip(out.route[1])
             r  == IF r0 \notin Route THEN UNKNOWN ELSE r0
         IN  IF out.cnf # <<>> /\ out.cnf[1].t = "str"
             THEN LabelDetection(out)
             ELSE LET c0 == IF out.cnf = <<>> THEN Num(50) ELSE out.cnf[1]
                      c  == PyMax(Num(0), PyMin(Num(100), c0))
                  IN  Ret(r, c)

\* A mutant of classify_intent: a failed primary call is answered with a fixed
\* (unknown, 0.0) instead of the heuristic's result
ClassifyIntent_FixedOnFailure(q, out) ==
    LET r == _classify_intent_llm(q, out) IN
    IF r.exc THEN Ret(UNKNOWN, Num(0)) ELSE r

classify_intent(q, out) ==
    LET r == _classify_intent_llm(q, out) IN
    IF r.exc THEN _classify_intent_heuristic(q) ELSE r

----------------------------------------------------------------------------
(* Tables and attachment bytes                                             *)

\* A cell is a string or a number; a table has column names and rows
Str(s) == [t |-> "str", s |-> s, n |-> 0]
Int_(n) == [t |-> "num", s |-> <<>>, n |-> n]
Table(cols, rows) == [cols |-> cols, rows |-> rows]

C_Region == <<"R","e","g","i","o","n">>
C_Country == <<"C","o","u","n","t","r","y">>
C_Sales == <<"S","a","l","e","s">>
V_Asia == <<"A","s","i","a">>
V_India == <<"I","n","d","i","a">>
V_China == <<"C","h","i","n","a">>
V_Europe == <<"E","u","r","o","p","e">>
V_Germany == <<"G","e","r","m","a","n","y">>
V_North == <<"N","o","r","t","h">>
V_South == <<"S","o","u","t","h">>

\* The tables of the specification's examples P6, P7 and P5
T_asia ==
    Table(<<C_Region, C_Country>>,
          << <<Str(V_Asia), Str(V_India)>>, <<Str(V_Asia), Str(V_China)>>,
             <<Str(V_Europe), Str(V_Germany)>> >>)
T_sales ==
    Table(<<C_Region, C_Sales>>,
          << <<Str(V_North), Int_(100)>>, <<Str(V_South), Int_(200)>>,
             <<Str(V_North), Int_(50)>> >>)
T_empty == Table(<<C_Region, C_Sales>>, <<>>)

\* Attachment bytes, by what the parsers make of them: a CSV text (one
\* unnamed table), a workbook (named sheets), a PDF (page texts), or zero bytes
Sheet(name, tbl) == [name |-> name, table |-> tbl]
CsvBytes(tbl) == [fmt |-> "csv", sheets |-> <<Sheet(<<>>, tbl)>>, pages |-> <<>>]
XlsxBytes(sheets) == [fmt |-> "xlsx", sheets |-> sheets, pages |-> <<>>]
PdfBytes(pages) == [fmt |-> "pdf", sheets |-> <<>>, pages |-> pages]
EmptyBytes == [fmt |-> "empty", sheets |-> <<>>, pages |-> <<>>]

\* len(data) > 0, the truth value of a bytes object
Truthy(data) == data.fmt # "empty"

N_S1 == <<"S","1">>
N_S2 == <<"S","2">>
N_S3 == <<"S","3">>
N_S9 == <<"S","9">>
B_sales_csv == CsvBytes(T_sales)
B_book == XlsxBytes(<<Sheet(N_S1, T_asia), Sheet(N_S2, T_empty)>>)

\* pd.read_csv(io.BytesIO(data))
ReadCsv(data) ==
    IF data.fmt = "csv"
    THEN [exc |-> FALSE, df |-> data.sheets[1].table]
    ELSE [exc |-> TRUE, df |-> T_empty]

\* pd.read_excel(io.BytesIO(data), sheet_name=sheet): the first sheet when no
\* sheet is named; a name the workbook lacks raises
ReadExcel(data, sheet) ==
    IF data.fmt # "xlsx" THEN [exc |-> TRUE, df |-> T_empty]
    ELSE IF sheet = <<>> THEN [exc |-> FALSE, df |-> data.sheets[1].table]
    ELSE IF \E i \in 1..Len(data.sheets) : data.sheets[i].name = sheet
         THEN [exc |-> FALSE,
               df |-> data.sheets[CHOOSE i \in 1..Len(data.sheets) :
                                     data.sheets[i].name = sheet].table]
    ELSE [exc |-> TRUE, df |-> T_empty]

----------------------------------------------------------------------------
(* Blob store and byte cache: be/rag/data_cache.py                         *)

U_a == <<"u","/","a">>
U_b == <<"u","/","b">>
U_e == <<"u","/","e">>
U_x == <<"u","/","x">>

\* client.get(url) followed by raise_for_status(): what each locator serves
HttpGet(url) ==
    IF url = U_a THEN [status |-> "ok", content |-> B_sales_csv]
    ELSE IF url = U_b THEN [status |-> "ok", content |-> B_book]
    ELSE IF url = U_e THEN [status |-> "ok", content |-> EmptyBytes]
    ELSE [status |-> "error", content |-> EmptyBytes]

\* md5 of "blob_uri:filename"; the digest is taken as one-to-one on the text
_cache_key(blob_uri, filename) == blob_uri \o <<":">> \o filename

\* A mutant of the cache write: the key depends on what is written
cache_blob_data_KeyedByData(c, blob_uri, filename, data) ==
    LET key == _cache_key(blob_uri, filename) \o <<data.fmt>> IN
    [k \in DOMAIN c \cup {key} |-> IF k = key THEN data ELSE c[k]]

cache_blob_data(c, blob_uri, filename, data) ==
    LET key == _cache_key(blob_uri, filename) IN
    [k \in DOMAIN c \cup {key} |-> IF k = key THEN data ELSE c[k]]

\* dict.get: <<>> stands for None, <<data>> for a stored value
get_cached_blob_data(c, blob_uri, filename) ==
    LET key == _cache_key(blob_uri, filename) IN
    IF key \in DOMAIN c THEN <<c[key]>> ELSE <<>>

EmptyCache == [k \in {} |-> EmptyBytes]

----------------------------------------------------------------------------
(* Tabular loader: be/rag/tabular_agent.py 9-101                           *)

Fetch(url, filename) == [uri |-> url, filename |-> filename]

\* The bytes for one spec, given what the cache holds for its key and what
\* the locator serves: the cached bytes when they are truthy, else a download
\* that is stored in the cache when it succeeds
FromCacheOrFetch(c, url, filename, cached, r) ==
    IF cached # <<>> /\ Truthy(cached[1])
    THEN [exc |-> FALSE, data |-> cached[1], cache |-> c, fetched |-> <<>>]
    ELSE IF r.status = "ok"
    THEN [exc |-> FALSE, data |-> r.content,
          cache |-> cache_blob_data(c, url, filename, r.content),
          fetched |-> <<Fetch(url, filename)>>]
    ELSE [exc |-> TRUE, data |-> EmptyBytes, cache |-> c,
          fetched |-> <<Fetch(url, filename)>>]

_load_blob_bytes(c, url, filename) ==
    FromCacheOrFetch(c, url, filename, get_cached_blob_data(c, url, filename),
                     HttpGet(url))

Digits == <<"0","1","2","3","4","5","6","7","8","9">>
RECURSIVE StrNat(_)
StrNat(n) ==
    IF n < 10 THEN <<Digits[n + 1]>>
    ELSE StrNat(n \div 10) \o <<Digits[(n % 10) + 1]>>

W_table_ == <<"t","a","b","l","e","_">>
EXT_csv == <<".","c","s","v">>
EXT_xlsx == <<".","x","l","s","x">>
EXT_xlsm == <<".","x","l","s","m">>

Spec_(uri, filename, sheet) == [blob_uri |-> uri, filename |-> filename, sheet |-> sheet]
Loaded(label, df) == [label |-> label, df |-> df]

\* label = spec.get("filename") or f"table_{i}", i counted from 0
LabelOf(spec, i) ==
    IF spec.filename # <<>> THEN spec.filename ELSE W_table_ \o StrNat(i - 1)

\* What one spec contributes once its bytes b are at hand and parsed as r:
\* a table under the given label, or nothing when the parse failed
Kept(b, label, r) ==
    [out |-> IF r.exc THEN <<>> ELSE <<Loaded(label, r.df)>>,
     cache |-> b.cache, fetched |-> b.fetched]

\* A mutant of the parse: a sheet of a workbook is labelled like the workbook
Parsed_SheetUnlabelled(spec, label, fname, b) ==
    IF b.exc THEN [out |-> <<>>, cache |-> b.cache, fetched |-> b.fetched]
    ELSE IF EndsWith(fname, EXT_csv) THEN Kept(b, label, ReadCsv(b.data))
    ELSE IF EndsWith(fname, EXT_xlsx) \/ EndsWith(fname, EXT_xlsm)
    THEN Kept(b, label, ReadExcel(b.data, spec.sheet))
    ELSE [out |-> <<>>, cache |-> b.cache, fetched |-> b.fetched]

\* The parse of one spec by the extension of its lower-cased filename
Parsed(spec, label, fname, b) ==
    IF b.exc THEN [out |-> <<>>, cache |-> b.cache, fetched |-> b.fetched]
    ELSE IF EndsWith(fname, EXT_csv) THEN Kept(b, label, ReadCsv(b.data))
    ELSE IF EndsWith(fname, EXT_xlsx) \/ EndsWith(fname, EXT_xlsm)
    THEN Kept(b, IF spec.sheet # <<>> THEN label \o <<":">> \o spec.sheet ELSE label,
              ReadExcel(b.data, spec.sheet))
    ELSE [out |-> <<>>, cache |-> b.cache, fetched |-> b.fetched]

\* One pass of the loop body for the spec at position i (1-based): the
\* tables it appends, the cache it leaves and the downloads it issued
LoadOne(c, spec, i) ==
    IF spec.blob_uri = <<>> THEN [out |-> <<>>, cache |-> c, fetched |-> <<>>]
    ELSE Parsed(spec, LabelOf(spec, i), Lower(spec.filename),
                _load_blob_bytes(c, spec.blob_uri, LabelOf(spec, i)))

\* A mutant of the loop: each pass puts its tables in front
Merged_InFront(acc, one) ==
    [exc |-> FALSE, out |-> one.out \o acc.out, cache |-> one.cache,
     fetched |-> acc.fetched \o one.fetched]

\* The state of the loop after one more pass
Merged(acc, one) ==
    [exc |-> FALSE, out |-> acc.out \o one.out, cache |-> one.cache,
     fetched |-> acc.fetched \o one.fetched]

RECURSIVE LoadFrom(_, _, _)
LoadFrom(specs, i, acc) ==
    IF i > Len(specs) THEN acc
    ELSE LoadFrom(specs, i + 1, Merged(acc, LoadOne(acc.cache, specs[i], i)))

load_dataframes(c, table_specs) ==
    LoadFrom(table_specs, 1, [exc |-> FALSE, out |-> <<>>, cache |-> c, fetched |-> <<>>])

----------------------------------------------------------------------------
(* The loader's state machine: a list of specs, loaded repeatedly against  *)
(* the process-wide cache, with clear_cache in between                     *)

MaxSpecs == 3
MaxLoads == 2

F_a_csv == <<"a",".","c","s","v">>
F_b_csv == <<"b",".","c","s","v">>
F_c_xlsx == <<"c",".","x","l","s","x">>
F_C_XLSX == <<"C",".","X","L","S","X">>
F_d_txt == <<"d",".","t","x","t">>
F_e_csv == <<"e",".","c","s","v">>

SP_A == Spec_(U_a, F_a_csv, <<>>)       \* a CSV that loads
SP_B == Spec_(U_x, F_b_csv, <<>>)       \* the download fails
SP_C == Spec_(U_b, F_c_xlsx, N_S1)      \* a named sheet that loads
SP_C2 == Spec_(U_b, F_C_XLSX, <<>>)     \* first sheet, upper-case extension
SP_C9 == Spec_(U_b, F_c_xlsx, N_S9)     \* a sheet the workbook lacks
SP_D == Spec_(U_a, F_d_txt, <<>>)       \* unsupported extension
SP_E == Spec_(U_e, F_e_csv, <<>>)       \* zero bytes: the parse fails
SP_N == Spec_(<<>>, F_a_csv, <<>>)      \* no locator
SP_Z == Spec_(U_a, <<>>, <<>>)          \* no filename
SP_AS == Spec_(U_a, F_a_csv, N_S1)      \* a CSV whose spec names a sheet
SpecPool == {SP_A, SP_B, SP_C, SP_C2, SP_C9, SP_D, SP_E, SP_N, SP_Z, SP_AS}

SpecLists == UNION {[1..n -> SpecPool] : n \in 0..MaxSpecs}

NoLoad == [exc |-> FALSE, out |-> <<>>, cache |-> EmptyCache, fetched |-> <<>>]

LoadInit ==
    /\ cache = EmptyCache
    /\ loadSpecs \in SpecLists
    /\ loadRes = NoLoad
    /\ fetchLog = <<>>
    /\ nLoads = 0

LoadIdle ==
    /\ cache = EmptyCache
    /\ loadSpecs = <<>>
    /\ loadRes = NoLoad
    /\ fetchLog = <<>>
    /\ nLoads = 0

LoadDataframes ==
    /\ nLoads < MaxLoads
    /\ LET r == load_dataframes(cache, loadSpecs) IN
          /\ loadRes' = [r EXCEPT !.cache = EmptyCache, !.fetched = <<>>]
          /\ cache' = r.cache
          /\ fetchLog' = r.fetched
    /\ nLoads' = nLoads + 1
    /\ UNCHANGED <<loadSpecs, routerVars, tabVars, apiVars>>

\* data_cache.clear_cache()
ClearCache ==
    /\ cache # EmptyCache
    /\ cache' = EmptyCache
    /\ UNCHANGED <<loadSpecs, loadRes, fetchLog, nLoads, routerVars, tabVars, apiVars>>

LoadNext == LoadDataframes \/ ClearCache

----------------------------------------------------------------------------
(* The earlier loader: backend/rag/tabular_agent.py 7-45. It has no byte   *)
(* cache, fetches outside the try block and stores a one-cell '_error'     *)
(* frame for a parse that raised                                           *)

W_table == <<"t","a","b","l","e">>
C__error == <<"_","e","r","r","o","r">>
W_parse_failed == <<"p","a","r","s","e"," ","f","a","i","l","e","d">>

\* pd.DataFrame({"_error": [str(e)]})
ErrorFrame == Table(<<C__error>>, << <<Str(W_parse_failed)>> >>)

\* label = spec.get("filename") or "table"
BackendLabelOf(spec) == IF spec.filename # <<>> THEN spec.filename ELSE W_table

\* The try block of one pass: the parsed table under its label, the
\* '_error' frame under the plain label when the parse raised, nothing for
\* an extension that is not tabular
BackendKept(label, r) ==
    IF r.exc THEN <<Loaded(BackendLabelOf(label.spec), ErrorFrame)>>
    ELSE <<Loaded(label.text, r.df)>>

BackendParsed(spec, fname, data) ==
    IF EndsWith(fname, EXT_csv)
    THEN BackendKept([spec |-> spec, text |-> BackendLabelOf(spec)], ReadCsv(data))
    ELSE IF EndsWith(fname, EXT_xlsx) \/ EndsWith(fname, EXT_xlsm)
    THEN BackendKept([spec |-> spec,
                      text |-> IF spec.sheet # <<>>
                               THEN BackendLabelOf(spec) \o <<":">> \o spec.sheet
                               ELSE BackendLabelOf(spec)],
                     ReadExcel(data, spec.sheet))
    ELSE <<>>

\* The loop from position i on: a fetch that fails raises out of the call,
\* and what was gathered so far is lost with it
RECURSIVE BackendLoadFrom(_, _, _)
BackendLoadFrom(specs, i, acc) ==
    IF i > Len(specs) THEN acc
    ELSE IF specs[i].blob_uri = <<>> THEN BackendLoadFrom(specs, i + 1, acc)
    ELSE IF HttpGet(specs[i].blob_uri).status # "ok"
    THEN [exc |-> TRUE, out |-> <<>>, cache |-> EmptyCache,
          fetched |-> acc.fetched \o <<Fetch(specs[i].blob_uri, specs[i].filename)>>]
    ELSE BackendLoadFrom(specs, i + 1,
            [acc EXCEPT !.out = @ \o BackendParsed(specs[i], Lower(specs[i].filename),
                                                   HttpGet(specs[i].blob_uri).content),
                        !.fetched = @ \o <<Fetch(specs[i].blob_uri, specs[i].filename)>>])

backend_load_dataframes(table_specs) ==
    BackendLoadFrom(table_specs, 1,
                    [exc |-> FALSE, out |-> <<>>, cache |-> EmptyCache, fetched |-> <<>>])

BackendLoadDataframes ==
    /\ nLoads < MaxLoads
    /\ LET r == backend_load_dataframes(loadSpecs) IN
          /\ loadRes' = [r EXCEPT !.fetched = <<>>]
          /\ fetchLog' = r.fetched
    /\ nLoads' = nLoads + 1
    /\ UNCHANGED <<cache, loadSpecs, routerVars, tabVars, apiVars>>

BackendLoadNext == BackendLoadDataframes

----------------------------------------------------------------------------
(* pandas primitives used by the tabular reasoner                          *)

Min2(a, b) == IF a < b THEN a ELSE b
Max2(a, b) == IF a > b THEN a ELSE b

FirstN(xs, k) == SubSeq(xs, 1, Min2(k, Len(xs)))

\* df.head(k)
Head_(df, k) == FirstN(df.rows, k)

ColIdx(df, col) == CHOOSE i \in 1..Len(df.cols) : df.cols[i] = col

\* The cells of the column at position idx in the given rows
Column(rows, idx) == [r \in 1..Len(rows) |-> rows[r][idx]]

\* df[col] as the sequence of its cells
Cells(df, col) == Column(df.rows, ColIdx(df, col))

\* The column's dtype is a number dtype (a table without rows has none)
IsNumericCol(df, col) ==
    /\ df.rows # <<>>
    /\ \A r \in 1..Len(df.rows) : df.rows[r][ColIdx(df, col)].t = "num"

\* [col for col in df.columns if any(word in col.lower() for word in words)]
ColsWith(df, words) ==
    SelectSeq(df.cols, LAMBDA c : \E w \in words : Contains(w, Lower(c)))

\* any(word in q for word in words)
AnyIn(words, q) == \E w \in words : Contains(w, q)

AppendNew(xs, x) ==
    IF \E i \in 1..Len(xs) : xs[i] = x THEN xs ELSE Append(xs, x)

\* Series.unique(): the distinct values in order of first appearance
RECURSIVE Unique(_)
Unique(xs) ==
    IF xs = <<>> THEN <<>>
    ELSE AppendNew(Unique(SubSeq(xs, 1, Len(xs) - 1)), xs[Len(xs)])

\* Series.nunique()
NUnique(xs) == Len(Unique(xs))

RECURSIVE SumInts(_)
SumInts(xs) == IF xs = <<>> THEN 0 ELSE Head(xs).n + SumInts(Tail(xs))

RECURSIVE MaxInts(_)
MaxInts(xs) == IF Len(xs) = 1 THEN xs[1].n ELSE Max2(xs[1].n, MaxInts(Tail(xs)))

RECURSIVE MinInts(_)
MinInts(xs) == IF Len(xs) = 1 THEN xs[1].n ELSE Min2(xs[1].n, MinInts(Tail(xs)))

\* f"{avg:,.2f}": the mean in hundredths
Mean100(xs) == (SumInts(xs) * 100) \div Len(xs)

\* Characters in code-point order, for the ordering of strings
CodeOrder == <<" ", "'", ".", "/", "0","1","2","3","4","5","6","7","8","9", ":", "?">>
             \o UpperChars \o <<"_">> \o LowerChars
Ord(c) == CHOOSE i \in 1..Len(CodeOrder) : CodeOrder[i] = c

RECURSIVE StrLess(_, _)
StrLess(a, b) ==
    IF b = <<>> THEN FALSE
    ELSE IF a = <<>> THEN TRUE
    ELSE IF Head(a) = Head(b) THEN StrLess(Tail(a), Tail(b))
    ELSE Ord(Head(a)) < Ord(Head(b))

Pair(k, v) == [k |-> k, v |-> v]
Keys(pairs) == [i \in 1..Len(pairs) |-> pairs[i].k]

\* A stable insertion of one pair into a sequence ordered by Before
RECURSIVE InsertBy(_, _, _)
InsertBy(Before(_, _), p, sorted) ==
    IF sorted = <<>> THEN <<p>>
    ELSE IF Before(p, Head(sorted)) THEN <<p>> \o sorted
    ELSE <<Head(sorted)>> \o InsertBy(Before, p, Tail(sorted))

RECURSIVE SortBy(_, _)
SortBy(Before(_, _), ps) ==
    IF ps = <<>> THEN <<>>
    ELSE InsertBy(Before, ps[Len(ps)], SortBy(Before, SubSeq(ps, 1, Len(ps) - 1)))

\* Orderings of pairs; equal pairs keep their original order
KeyAsc(p, q) == StrLess(p.k, q.k)
ValDesc(p, q) == p.v > q.v

\* The rows whose cell in column col equals the value x
RowsWhere(df, col, x) ==
    SelectSeq(df.rows, LAMBDA row : row[ColIdx(df, col)] = x)

\* The string values of a column, in order of first appearance
StrKeys(df, by) == SelectSeq(Unique(Cells(df, by)), LAMBDA c : c.t = "str")

\* One pair per key: the aggregate of column col over the rows of that key
Aggregated(keys, df, by, col, Agg(_)) ==
    [i \in 1..Len(keys) |->
        Pair(keys[i].s, Agg(Column(RowsWhere(df, by, keys[i]), ColIdx(df, col))))]

\* df.groupby(by)[col].sum(): keys ascending
GroupSum(df, by, col) ==
    SortBy(KeyAsc, Aggregated(StrKeys(df, by), df, by, col, SumInts))

\* df.groupby(by)[col].nunique()
GroupNunique(df, by, col) ==
    SortBy(KeyAsc, Aggregated(StrKeys(df, by), df, by, col, NUnique))

\* df[col].value_counts(): string values with their counts, most frequent first
ValueCounts(df, col) ==
    SortBy(ValDesc, Aggregated(StrKeys(df, col), df, col, col, Len))

\* s.sort_values(ascending=False)
SortDesc(ps) == SortBy(ValDesc, ps)

\* One pair per column: an aggregate of its cells
PerCol(df, cols, Agg(_)) ==
    [i \in 1..Len(cols) |-> Pair(cols[i], Agg(Cells(df, cols[i])))]

NumericCols(df) == SelectSeq(df.cols, LAMBDA c : IsNumericCol(df, c))
ObjectCols(df) == SelectSeq(df.cols, LAMBDA c : ~IsNumericCol(df, c))

----------------------------------------------------------------------------
(* Tier B: the column-family heuristic of be/rag/tabular_agent.py          *)

W_asia == <<"a","s","i","a">>

\* One paragraph of an answer: what it reports, with the figures it renders
Part(kind, n, n2, strs, pairs, pairs2) ==
    [kind |-> kind, n |-> n, n2 |-> n2, strs |-> strs, pairs |-> pairs,
     pairs2 |-> pairs2]
Note(kind) == Part(kind, 0, 0, <<>>, <<>>, <<>>)

\* f"{label} (Shape: {df.shape}):\n{df.head(k).to_string(index=False)}"
Preview(label, df, k) ==
    [label |-> label, nrows |-> Len(df.rows), ncols |-> Len(df.cols),
     cols |-> df.cols, rows |-> Head_(df, k)]
Previews(tables, k) ==
    [i \in 1..Len(tables) |-> Preview(tables[i].label, tables[i].df, k)]

\* A mutant of the mask: the match made case-sensitive
MatchesAsia_CaseSensitive(cell) == cell.t = "str" /\ Contains(<<"A","s","i","a">>, cell.s)

\* df[col].str.contains('Asia|Asian', case=False, na=False) for one cell
MatchesAsia(cell) == cell.t = "str" /\ Contains(W_asia, Lower(cell.s))

AsiaRows(df, region_col) ==
    SelectSeq(df.rows, LAMBDA row : MatchesAsia(row[ColIdx(df, region_col)]))

\* df[asia_mask][country_col].unique()
AsiaCountries(df, region_col, country_col) ==
    Unique(Column(AsiaRows(df, region_col), ColIdx(df, country_col)))

AllStr(cells) == \A i \in 1..Len(cells) : cells[i].t = "str"
StrsOf(cells) == [i \in 1..Len(cells) |-> cells[i].s]

\* The text written about the Asian countries found; joining a country
\* that is no string raises
AsiaReport(region_col, country_list) ==
    IF Len(country_list) > 0
    THEN IF AllStr(FirstN(country_list, 10))
         THEN <<Part("Asia Region Analysis", Len(country_list), 0,
                     StrsOf(FirstN(country_list, 10)), <<>>, <<>>)>>
         ELSE <<Note("Error analyzing Asia countries")>>
    ELSE <<Part("No countries found with 'Asia'", 0, 0, <<region_col>>, <<>>, <<>>)>>

_analyze_asia_countries(df, region_cols, country_cols) ==
    IF region_cols = <<>> \/ country_cols = <<>> THEN <<>>
    ELSE IF IsNumericCol(df, region_cols[1])
    THEN <<Note("Error analyzing Asia countries")>>
    ELSE AsiaReport(region_cols[1],
                    AsiaCountries(df, region_cols[1], country_cols[1]))

_analyze_regions(df, region_cols, country_cols, sales_cols) ==
    IF region_cols = <<>> THEN <<>>
    ELSE IF ~AllStr(Cells(df, region_cols[1]))
    THEN <<Note("Error in regional analysis")>>
    ELSE <<Part("Regional Analysis", 0, 0,
                Keys(FirstN(ValueCounts(df, region_cols[1]), 5)),
                IF country_cols # <<>>
                THEN GroupNunique(df, region_cols[1], country_cols[1])
                ELSE <<>>,
                IF sales_cols # <<>>
                THEN GroupSum(df, region_cols[1], sales_cols[1])
                ELSE <<>>)>>

_count_analysis(df, country_cols, region_cols, q) ==
    IF country_cols = <<>> THEN <<Note("Count Analysis")>>
    ELSE IF region_cols # <<>> /\ Contains(W_asia, q)
    THEN IF IsNumericCol(df, region_cols[1])
         THEN <<Note("Error in count analysis")>>
         ELSE <<Part("Count Analysis", NUnique(Cells(df, country_cols[1])),
                     Len(AsiaCountries(df, region_cols[1], country_cols[1])),
                     <<W_asia>>, <<>>, <<>>)>>
    ELSE <<Part("Count Analysis", NUnique(Cells(df, country_cols[1])), 0,
                <<>>, <<>>, <<>>)>>

\* The text of the financial analysis: total and mean of the chosen column
\* (col is <<>> when there is none), then the two breakdowns; a column that
\* holds no numbers raises
FinancialReport(df, col, regional, country) ==
    IF col = <<>>
    THEN <<Part("Financial Analysis", 0, 0, <<>>, regional, country)>>
    ELSE IF ~IsNumericCol(df, col[1])
    THEN <<Note("Error in sales analysis")>>
    ELSE <<Part("Financial Analysis", SumInts(Cells(df, col[1])),
                Mean100(Cells(df, col[1])), col, regional, country)>>

\* A mutant of the breakdown: the sums left in the order of their keys
Top3_Unsorted(df, by, col) == FirstN(GroupSum(df, by, col), 3)

\* dict(df.groupby(by)[col].sum().sort_values(ascending=False).head(3))
Top3(df, by, col) == FirstN(SortDesc(GroupSum(df, by, col)), 3)

_sales_analysis(df, sales_cols, region_cols, country_cols, q) ==
    LET RevenueWords == {<<"r","e","v","e","n","u","e">>, <<"s","a","l","e","s">>}
        ProfitWords == {<<"p","r","o","f","i","t">>}
        RegionBreakdownWords == {<<"r","e","g","i","o","n">>, <<"b","y"," ","r","e","g","i","o","n">>, <<"r","e","g","i","o","n","a","l">>}
        CountryBreakdownWords == {<<"c","o","u","n","t","r","y">>, <<"b","y"," ","c","o","u","n","t","r","y">>}
        W_revenue == <<"r","e","v","e","n","u","e">>
        W_profit == <<"p","r","o","f","i","t">>
    IN  FinancialReport(
            df,
            IF Contains(W_revenue, Lower(q)) /\ ColsWith(df, RevenueWords) # <<>>
            THEN FirstN(ColsWith(df, RevenueWords), 1)
            ELSE IF Contains(W_profit, Lower(q)) /\ ColsWith(df, ProfitWords) # <<>>
            THEN FirstN(ColsWith(df, ProfitWords), 1)
            ELSE FirstN(sales_cols, 1),
            IF /\ region_cols # <<>>
               /\ AnyIn(RegionBreakdownWords, Lower(q))
               /\ sales_cols # <<>>
            THEN Top3(df, region_cols[1], sales_cols[1])
            ELSE <<>>,
            IF /\ country_cols # <<>>
               /\ AnyIn(CountryBreakdownWords, Lower(q))
               /\ sales_cols # <<>>
            THEN Top3(df, country_cols[1], sales_cols[1])
            ELSE <<>>)

_analyze_items(df, item_cols, sales_cols, region_cols) ==
    <<Part("Product/Item Analysis", NUnique(Cells(df, item_cols[1])),
           Len(df.rows), FirstN(item_cols, 1),
           FirstN(ValueCounts(df, item_cols[1]), 5),
           IF sales_cols # <<>>
           THEN Top3(df, item_cols[1], sales_cols[1])
           ELSE <<>>)>>

\* The overview: shape, the first five columns, the distinct-value count of
\* the first three text columns, the maximum of the first three number columns
_general_analysis(df, q) ==
    <<Part("Dataset Overview", Len(df.rows), Len(df.cols), FirstN(df.cols, 5),
           PerCol(df, FirstN(ObjectCols(df), 3), NUnique),
           PerCol(df, FirstN(NumericCols(df), 3), MaxInts))>>

\* One entry of answers: f"**{label}:**\n{chr(10).join(answer_parts)}"
Entry(label, parts) == [label |-> label, parts |-> parts]

\* An answer that is one fixed or generated text, outside any table
Plain(part) == <<Entry(<<>>, <<part>>)>>

\* A generated text as an answer paragraph
TextPart(text) == Part("text", 0, 0, <<text>>, <<>>, <<>>)

\* One analysis branch after the paragraphs collected so far: it runs when
\* its condition holds and, for a branch guarded by "not analysis_performed",
\* when nothing was collected; an empty result adds nothing
Branch(answer_parts, guarded, applies, analysis) ==
    IF applies /\ (guarded => answer_parts = <<>>)
    THEN answer_parts \o analysis
    ELSE answer_parts

\* "if not analysis_performed": the overview when no branch wrote anything
OrGeneral(answer_parts, general_analysis) ==
    IF answer_parts # <<>> THEN answer_parts ELSE general_analysis

\* The body of the loop of _basic_tabular_analysis for one table, given the
\* columns of each family: the paragraphs collected for it, and whether
\* control reaches answers.append
Analysed(q_lower, df, region_cols, country_cols, sales_cols, item_cols) ==
    LET ItemWords == {<<"i","t","e","m">>, <<"p","r","o","d","u","c","t">>, <<"t","y","p","e">>}
        AsiaWords == {<<"a","s","i","a">>, <<"a","s","i","a","n">>}
        AsiaCountWords == {<<"c","o","u","n","t","r","i","e","s">>, <<"c","o","u","n","t","r","y">>, <<"c","o","u","n","t">>, <<"n","u","m","b","e","r">>, <<"h","o","w"," ","m","a","n","y">>}
        RegionalWords == {<<"r","e","g","i","o","n">>, <<"r","e","g","i","o","n","a","l">>}
        CountWords == {<<"c","o","u","n","t">>, <<"n","u","m","b","e","r">>, <<"h","o","w"," ","m","a","n","y">>}
        FinanceWords == {<<"s","a","l","e","s">>, <<"r","e","v","e","n","u","e">>, <<"p","r","o","f","i","t">>, <<"c","o","s","t">>, <<"t","o","t","a","l">>, <<"s","u","m">>, <<"a","v","e","r","a","g","e">>}
    IN  IF Len(df.rows) = 0
        THEN [appended |-> FALSE,
              parts |-> <<Part("Empty sheet", Len(df.cols), 0, <<>>, <<>>, <<>>),
                          Part("Columns Available", 0, 0, df.cols, <<>>, <<>>)>>]
        ELSE [appended |-> TRUE,
              parts |->
                OrGeneral(
                  Branch(
                    Branch(
                      Branch(
                        Branch(
                          Branch(<<>>, FALSE,
                                 AnyIn(AsiaWords, q_lower) /\ AnyIn(AsiaCountWords, q_lower),
                                 _analyze_asia_countries(df, region_cols, country_cols)),
                          TRUE,
                          AnyIn(RegionalWords, q_lower) /\ region_cols # <<>>,
                          _analyze_regions(df, region_cols, country_cols, sales_cols)),
                        TRUE,
                        AnyIn(CountWords, q_lower) /\ country_cols # <<>>,
                        _count_analysis(df, country_cols, region_cols, q_lower)),
                      FALSE,
                      AnyIn(FinanceWords, q_lower) /\ sales_cols # <<>>,
                      _sales_analysis(df, sales_cols, region_cols, country_cols, q_lower)),
                    FALSE,
                    AnyIn(ItemWords, q_lower) /\ item_cols # <<>>,
                    _analyze_items(df, item_cols, sales_cols, region_cols)),
                  _general_analysis(df, q_lower))]

TableAnalysis(q_lower, df) ==
    LET RegionWords == {<<"r","e","g","i","o","n">>, <<"c","o","n","t","i","n","e","n","t">>, <<"a","r","e","a">>, <<"z","o","n","e">>}
        CountryWords == {<<"c","o","u","n","t","r","y">>, <<"n","a","t","i","o","n">>, <<"s","t","a","t","e">>}
        SalesWords == {<<"s","a","l","e","s">>, <<"r","e","v","e","n","u","e">>, <<"a","m","o","u","n","t">>, <<"v","a","l","u","e">>}
        ItemWords == {<<"i","t","e","m">>, <<"p","r","o","d","u","c","t">>, <<"t","y","p","e">>}
    IN  Analysed(q_lower, df, ColsWith(df, RegionWords), ColsWith(df, CountryWords),
                 ColsWith(df, SalesWords), ColsWith(df, ItemWords))

Labels(tables) == [i \in 1..Len(tables) |-> tables[i].label]

Result(answer, tables_used, previews, analysis_type) ==
    [answer |-> answer, tables_used |-> tables_used, previews |-> previews,
     analysis_type |-> analysis_type]

\* answers.append for one table: skipped when the loop body left by continue
EntryIfAppended(label, analysed) ==
    IF analysed.appended THEN <<Entry(label, analysed.parts)>> ELSE <<>>

\* answers holds an entry only for the tables whose loop body reached
\* answers.append
RECURSIVE AppendedEntries(_, _)
AppendedEntries(q_lower, tables) ==
    IF tables = <<>> THEN <<>>
    ELSE EntryIfAppended(Head(tables).label, TableAnalysis(q_lower, Head(tables).df))
         \o AppendedEntries(q_lower, Tail(tables))

_basic_tabular_analysis(q, tables) ==
    IF tables = <<>>
    THEN Result(Plain(Note("No data tables available for analysis.")),
                <<>>, <<>>, "no_data")
    ELSE Result(AppendedEntries(Lower(q), tables), Labels(tables),
                Previews(tables, 5), "enhanced_basic")

----------------------------------------------------------------------------
(* Tier A: EnhancedRAGManager of be/rag/enhanced_agent.py                  *)

\* The statistics paragraphs of the manager's own fallback for one table
ManagerStats(q_lower, df, numeric_cols) ==
    LET SumWords == {<<"s","u","m">>, <<"t","o","t","a","l">>}
        MeanWords == {<<"m","e","a","n">>, <<"a","v","e","r","a","g","e">>}
        MaxWords == {<<"m","a","x">>, <<"m","a","x","i","m","u","m">>}
        MinWords == {<<"m","i","n">>, <<"m","i","n","i","m","u","m">>}
        W_count == <<"c","o","u","n","t">>
    IN  IF numeric_cols = <<>> THEN <<>>
        ELSE (IF AnyIn(SumWords, q_lower)
              THEN <<Part("Column sums", 0, 0, <<>>, PerCol(df, numeric_cols, SumInts), <<>>)>>
              ELSE <<>>)
          \o (IF AnyIn(MeanWords, q_lower)
              THEN <<Part("Column averages", 0, 0, <<>>, PerCol(df, numeric_cols, Mean100), <<>>)>>
              ELSE <<>>)
          \o (IF AnyIn(MaxWords, q_lower)
              THEN <<Part("Maximum values", 0, 0, <<>>, PerCol(df, numeric_cols, MaxInts), <<>>)>>
              ELSE <<>>)
          \o (IF AnyIn(MinWords, q_lower)
              THEN <<Part("Minimum values", 0, 0, <<>>, PerCol(df, numeric_cols, MinInts), <<>>)>>
              ELSE <<>>)
          \o (IF Contains(W_count, q_lower)
              THEN <<Part("Non-null counts", 0, 0, <<>>, PerCol(df, df.cols, Len), <<>>)>>
              ELSE <<>>)

\* The paragraphs for one table: the shape, then the statistics or, when
\* there are none, the column list
ManagerReport(df, numeric_cols, stats) ==
    <<Part("Data shape", Len(df.rows), Len(df.cols), <<>>, <<>>, <<>>)>>
    \o (IF stats # <<>> THEN stats
        ELSE <<Part("Columns", 0, 0, df.cols, <<>>, <<>>)>>
             \o (IF numeric_cols # <<>>
                 THEN <<Note("Contains numeric data suitable for calculations")>>
                 ELSE <<>>))

ManagerParts(q_lower, df) ==
    ManagerReport(df, NumericCols(df), ManagerStats(q_lower, df, NumericCols(df)))

Manager_basic_tabular_analysis(q, tables, previews) ==
    Result([i \in 1..Len(tables) |->
               Entry(tables[i].label, ManagerParts(Lower(q), tables[i].df))],
           Labels(tables), previews, "basic_fallback")

\* What the generative model does with one prompt
ModelTexts == {<<>>, <<" ">>, S_see_mail}
ModelOutcomes ==
    [kind : {"raises"}, text : {<<>>}] \cup [kind : {"text"}, text : ModelTexts]

Unable == <<"U","n","a","b","l","e"," ","t","o"," ","g","e","n","e","r","a","t","e"," ","r","e","s","p","o","n","s","e">>

analyze_tabular_data(q, tables, model) ==
    IF tables = <<>>
    THEN Result(Plain(Note("No tabular data available for analysis.")),
                <<>>, <<>>, "no_data")
    ELSE IF model.kind = "raises"
    THEN Manager_basic_tabular_analysis(q, tables, Previews(tables, 10))
    ELSE Result(Plain(TextPart(IF model.text # <<>> THEN model.text ELSE Unable)),
                Labels(tables), Previews(tables, 10), "enhanced_tabular")

\* The environment of one call of the reasoner: whether the enhanced agent
\* can be imported, whether the API key is set, whether the caller runs in
\* an event loop, whether the analysis outlasts the 60 s of future.result,
\* and what the model does.  A field that the call cannot observe keeps its
\* default: no model without the agent, no timeout without an event loop.
NoModel == [kind |-> "raises", text |-> <<>>]
TabEnvs ==
    [importable : {FALSE}, api_key : {FALSE}, loop : {FALSE}, slow : {FALSE},
     model : {NoModel}]
    \cup [importable : {TRUE}, api_key : {FALSE}, loop : {FALSE}, slow : {FALSE},
          model : {NoModel}]
    \cup [importable : {TRUE}, api_key : {TRUE}, loop : {FALSE}, slow : {FALSE},
          model : ModelOutcomes]
    \cup [importable : {TRUE}, api_key : {TRUE}, loop : {TRUE}, slow : BOOLEAN,
          model : ModelOutcomes]

\* Whether the try block of answer_with_pandasai returns the agent's result
TierAReturns(env) ==
    /\ env.importable
    /\ env.api_key
    /\ ~(env.loop /\ env.slow)

\* Whether analyze_tabular_data was started
TierAInvoked(env) == env.importable /\ env.api_key

NoTablesAnswer == Result(Plain(Note("Unable to analyze tabular data due to download timeouts")), <<>>, <<>>, "no_data_timeout")

\* The analyses one call of answer_with_pandasai invokes, in order: none
\* without tables; Tier A when the agent is importable and the key is set;
\* Tier B when Tier A was not invoked or its result was not waited for
Invoked(tables, env) ==
    IF tables = <<>> THEN <<>>
    ELSE (IF TierAInvoked(env) THEN <<"analyze_tabular_data">> ELSE <<>>)
         \o (IF TierAReturns(env) THEN <<>> ELSE <<"_basic_tabular_analysis">>)

\* A mutant of the reasoner: the test for an empty table list is left out
answer_with_pandasai_NoGuard(q, tables, env) ==
    IF TierAReturns(env)
    THEN analyze_tabular_data(q, tables, env.model)
    ELSE _basic_tabular_analysis(q, tables)

answer_with_pandasai(q, tables, env) ==
    IF tables = <<>> THEN NoTablesAnswer
    ELSE IF TierAReturns(env)
    THEN analyze_tabular_data(q, tables, env.model)
    ELSE _basic_tabular_analysis(q, tables)

----------------------------------------------------------------------------
(* Ingestion: backend/rag/api.py 50-187, backend/rag/parsers.py            *)

\* The number of leading non-whitespace characters of t
RECURSIVE WordLen(_)
WordLen(t) ==
    IF t = <<>> \/ Head(t) \in Whitespace THEN 0 ELSE 1 + WordLen(Tail(t))

\* text.split(): the maximal runs of non-whitespace characters
RECURSIVE Split(_)
CutWord(t, n) == <<SubSeq(t, 1, n)>> \o Split(SubSeq(t, n + 1, Len(t)))
Split(text) ==
    IF text = <<>> THEN <<>>
    ELSE IF Head(text) \in Whitespace THEN Split(Tail(text))
    ELSE CutWord(text, WordLen(text))

\* " ".join(words)
RECURSIVE Join(_)
Join(words) ==
    IF words = <<>> THEN <<>>
    ELSE IF Len(words) = 1 THEN words[1]
    ELSE words[1] \o <<" ">> \o Join(Tail(words))

\* The while loop of chunk_text from position start (counted from 0): one
\* pass appends words[start:end], then stops at the last word or steps back
\* by the overlap
RECURSIVE ChunkFrom(_, _, _, _)
ChunkTo(words, start, end, max_words, overlap) ==
    <<Join(SubSeq(words, start + 1, end))>>
    \o (IF end = Len(words) THEN <<>>
        ELSE ChunkFrom(words, Max2(0, end - overlap), max_words, overlap))
ChunkFrom(words, start, max_words, overlap) ==
    ChunkTo(words, start, Min2(Len(words), start + max_words), max_words, overlap)

ChunkWords(words, max_words, overlap) ==
    IF words = <<>> THEN <<>> ELSE ChunkFrom(words, 0, max_words, overlap)

chunk_text(text, max_words, overlap) == ChunkWords(Split(text), max_words, overlap)

\* A stored document: a chunk of text, or the summary of one sheet
Doc(kind, text, sheet, columns, row_count, preview) ==
    [kind |-> kind, text |-> text, sheet |-> sheet, columns |-> columns,
     row_count |-> row_count, preview |-> preview]
TextDoc(text) == Doc("text", text, <<>>, <<>>, 0, <<>>)

Meta(type, messageId, attachmentId, filename, sheet, blob_uri, page, subject) ==
    [type |-> type, messageId |-> messageId, attachmentId |-> attachmentId,
     filename |-> filename, sheet |-> sheet, blob_uri |-> blob_uri, page |-> page,
     subject |-> subject]

Item(id, doc, meta) == [id |-> id, doc |-> doc, meta |-> meta]

\* collection.add: an id the collection already holds is not added again
RECURSIVE Add(_, _)
Add(coll, items) ==
    IF items = <<>> THEN coll
    ELSE IF \E i \in 1..Len(coll) : coll[i].id = Head(items).id
    THEN Add(coll, Tail(items))
    ELSE Add(Append(coll, Head(items)), Tail(items))

\* One summary per sheet kept, its preview the first five data rows
SheetSummaries(kept) ==
    [i \in 1..Len(kept) |->
        Doc("sheet_summary", <<>>, kept[i].name, kept[i].table.cols,
            Len(kept[i].table.rows), Head_(kept[i].table, 5))]

\* xlsx_summary_from_bytes: the sheets that have any row; bytes that are no
\* workbook raise
xlsx_summary_from_bytes(data) ==
    IF data.fmt # "xlsx" THEN [exc |-> TRUE, out |-> <<>>]
    ELSE [exc |-> FALSE,
          out |-> SheetSummaries(SelectSeq(data.sheets,
                                           LAMBDA sh : sh.table.cols # <<>>))]

\* parse_pdf_bytes: the page texts, numbered from 1; bytes that are no PDF raise
parse_pdf_bytes(data) ==
    IF data.fmt # "pdf" THEN [exc |-> TRUE, out |-> <<>>]
    ELSE [exc |-> FALSE,
          out |-> [i \in 1..Len(data.pages) |-> [page |-> i, text |-> data.pages[i]]]]

\* The three collections as one record, and the outcome of a handler: the
\* collections and the byte cache it leaves, and whether it raised
Colls(mail, sem, tab) == [mail |-> mail, sem |-> sem, tab |-> tab]
Outcome(exc, colls, c) == [exc |-> exc, colls |-> colls, cache |-> c]

W_body == <<"b","o","d","y">>
W_tabular == <<"t","a","b","u","l","a","r">>
W_spreadsheetml == <<"s","p","r","e","a","d","s","h","e","e","t","m","l">>
EXT_pdf == <<".","p","d","f">>

\* The ids and metadata ingest_mail builds for the chunks of one mail
MailItems(req, chunks) ==
    [i \in 1..Len(chunks) |->
        Item(req.messageId \o <<":">> \o W_body \o <<":">> \o StrNat(i - 1),
             TextDoc(chunks[i]),
             Meta("mail_body", req.messageId, <<>>, <<>>, <<>>, <<>>, 0, req.subject))]

\* embed_texts, then collection.add; embed_ok tells whether the embedding
\* call succeeds.  which names the collection: "mail", "sem" or "tab"
Stored(colls, c, which, items, embed_ok) ==
    IF items = <<>> THEN Outcome(FALSE, colls, c)
    ELSE IF ~embed_ok THEN Outcome(TRUE, colls, c)
    ELSE Outcome(FALSE, [colls EXCEPT ![which] = Add(colls[which], items)], c)

ingest_mail(colls, c, req, embed_ok) ==
    Stored(colls, c, "mail", MailItems(req, chunk_text(req.bodyText, 900, 80)), embed_ok)

\* The ids and metadata of the chunks of one page of a PDF
PageItems(req, page, chunks) ==
    [i \in 1..Len(chunks) |->
        Item(req.messageId \o <<":">> \o req.attachmentId \o <<":">> \o W_pdf
               \o <<":">> \o StrNat(page) \o <<":">> \o StrNat(i - 1),
             TextDoc(chunks[i]),
             Meta("attachment_pdf", req.messageId, req.attachmentId, req.filename,
                  <<>>, <<>>, page, <<>>))]

\* The chunks of all pages of a PDF, in page order
RECURSIVE PdfItems(_, _, _)
PdfItems(req, pages, p) ==
    IF p > Len(pages) THEN <<>>
    ELSE PageItems(req, pages[p].page, chunk_text(pages[p].text, 900, 80))
         \o PdfItems(req, pages, p + 1)

\* The ids and metadata of the tabular index entries of one attachment
TabularItems(req, entries, blob_uri) ==
    [i \in 1..Len(entries) |->
        Item(req.messageId \o <<":">> \o req.attachmentId \o <<":">>
               \o W_tabular \o <<":">> \o StrNat(i - 1),
             entries[i],
             Meta("attachment_tabular", req.messageId, req.attachmentId,
                  req.filename, entries[i].sheet, blob_uri, 0, <<>>))]

\* The PDF branch and the tabular branch of the core, given what the parser
\* returned
StoredPdf(colls, c, req, pages, embed_ok) ==
    IF pages.exc THEN Outcome(TRUE, colls, c)
    ELSE Stored(colls, c, "sem", PdfItems(req, pages.out, 1), embed_ok)

StoredSheets(colls, c, req, summaries, blob_uri, embed_ok) ==
    IF summaries.exc THEN Outcome(TRUE, colls, c)
    ELSE Stored(colls, c, "tab", TabularItems(req, summaries.out, blob_uri), embed_ok)

\* The branch of the core chosen by the lowered content type ct and the
\* lowered filename fn
CoreBranch(colls, c, data, req, blob_uri, embed_ok, ct, fn) ==
    IF Contains(W_pdf, ct) \/ EndsWith(fn, EXT_pdf)
    THEN StoredPdf(colls, c, req, parse_pdf_bytes(data), embed_ok)
    ELSE IF \/ Contains(W_spreadsheetml, ct)
            \/ EndsWith(fn, EXT_xlsx) \/ EndsWith(fn, EXT_xlsm)
            \/ EndsWith(fn, EXT_csv)
    THEN IF EndsWith(fn, EXT_csv)
         THEN Stored(colls, c, "tab",
                     TabularItems(req, <<Doc("csv_note", req.filename, <<>>, <<>>, 0, <<>>)>>,
                                  blob_uri),
                     embed_ok)
         ELSE StoredSheets(colls, c, req, xlsx_summary_from_bytes(data), blob_uri, embed_ok)
    ELSE Outcome(FALSE, colls, c)

\* _ingest_attachment_bytes_core; blob_uri is <<>> for None, stored as ""
_ingest_attachment_bytes_core(colls, c, data, req, blob_uri, embed_ok) ==
    CoreBranch(colls, c, data, req, blob_uri, embed_ok,
               Lower(req.contentType), Lower(req.filename))

\* The rest of ingest_attachment once the download returned r
Downloaded(colls, c, req, r, embed_ok) ==
    IF r.status # "ok" THEN Outcome(TRUE, colls, c)
    ELSE _ingest_attachment_bytes_core(
             colls, cache_blob_data(c, req.blob_uri, req.filename, r.content),
             r.content, req, req.blob_uri, embed_ok)

\* ingest_attachment: download, store the bytes in the cache, then the core
ingest_attachment(colls, c, req, embed_ok) ==
    Downloaded(colls, c, req, HttpGet(req.blob_uri), embed_ok)

\* ingest_attachment_bytes: the uploaded bytes, no locator
ingest_attachment_bytes(colls, c, req, data, embed_ok) ==
    _ingest_attachment_bytes_core(colls, c, data, req, <<>>, embed_ok)

\* Before any call: no environment chosen, no result returned
NoEnv == [importable |-> FALSE, api_key |-> FALSE, loop |-> FALSE, slow |-> FALSE,
          model |-> NoModel]
NoResult == Result(<<>>, <<>>, <<>>, "none")

----------------------------------------------------------------------------
(* Question answering: ask of backend/rag/api.py 297-391, with the loader  *)
(* and the reasoner of be/rag that it imports as .tabular_agent            *)

\* What the collaborators of one /ask do: the embedding call and the
\* similarity query (retrieval), whether the enhanced agent can be built,
\* the generative model, and the environment of the tabular reasoner.  A
\* collaborator that the request does not reach keeps its default.
AskEnv(retrieval, agent, gen, tab) ==
    [retrieval |-> retrieval, agent |-> agent, gen |-> gen, tab |-> tab]
NoAskEnv == AskEnv("ok", FALSE, NoModel, NoEnv)

AskEnvs(route) ==
    {AskEnv(r, FALSE, NoModel, NoEnv) : r \in {"embed_raises", "query_raises"}}
    \cup (IF route = MAIL_BODY_SEMANTIC
          THEN {AskEnv("ok", FALSE, g, NoEnv) : g \in ModelOutcomes}
          ELSE IF route = ATTACHMENT_SEMANTIC
          THEN {AskEnv("ok", a, g, NoEnv) : a \in BOOLEAN, g \in ModelOutcomes}
          ELSE IF route = ATTACHMENT_TABULAR
          THEN {AskEnv("ok", FALSE, NoModel, t) : t \in TabEnvs}
          ELSE {NoAskEnv})

\* topk_from_collection: embed the query, then the k nearest documents; the
\* ranking of the similarity search is taken to be the order of insertion
topk_from_collection(coll, k, retrieval) ==
    IF retrieval # "ok" THEN [exc |-> TRUE, out |-> <<>>]
    ELSE [exc |-> FALSE,
          out |-> [i \in 1..Min2(k, Len(coll)) |->
                      [text |-> coll[i].doc, meta |-> coll[i].meta]]]

RetrievalLog(name, retrieval) ==
    IF retrieval = "embed_raises" THEN <<"embed">> ELSE <<"embed", name>>

Response(answer, route, sources, analysis_type) ==
    [kind |-> "response", answer |-> answer, route |-> route, sources |-> sources,
     analysis_type |-> analysis_type]
Propagated(route) ==
    [kind |-> "exception", answer |-> <<>>, route |-> route, sources |-> <<>>,
     analysis_type |-> ""]
Asked(resp, log, c) == [resp |-> resp, log |-> log, cache |-> c]

\* The source entries of a response: two fields of each hit's metadata
Source(a, b) == [a |-> a, b |-> b]
MailSources(top) == [i \in 1..Len(top) |-> Source(top[i].meta.subject, <<>>)]
PdfSources(top) ==
    [i \in 1..Len(top) |-> Source(top[i].meta.filename, StrNat(top[i].meta.page))]
SpecSources(specs) ==
    [i \in 1..Len(specs) |-> Source(specs[i].filename, specs[i].sheet)]

\* (resp.text or "").strip() as the answer
Generated(gen) == Plain(TextPart(Strip(gen.text)))

\* The mail route after retrieval returned top
MailAnswer(c, env, top, log) ==
    IF top.exc THEN Asked(Propagated(MAIL_BODY_SEMANTIC), log, c)
    ELSE IF top.out = <<>>
    THEN Asked(Response(Plain(Note("I don't know based on the available mail bodies.")),
                        MAIL_BODY_SEMANTIC, <<>>, ""), log, c)
    ELSE IF env.gen.kind = "raises"
    THEN Asked(Propagated(MAIL_BODY_SEMANTIC), log \o <<"generate">>, c)
    ELSE Asked(Response(Generated(env.gen), MAIL_BODY_SEMANTIC, MailSources(top.out), ""),
               log \o <<"generate">>, c)

AskMail(colls, c, k, env) ==
    MailAnswer(c, env, topk_from_collection(colls.mail, k, env.retrieval),
               RetrievalLog("query_mail", env.retrieval))

\* analyze_pdf_with_agent of be/rag/enhanced_agent.py 29-109, 419-422
analyze_pdf_with_agent(top, env) ==
    IF ~env.agent
    THEN [exc |-> TRUE, answer |-> <<>>, sources |-> <<>>, analysis_type |-> ""]
    ELSE IF env.gen.kind = "raises"
    THEN [exc |-> FALSE,
          answer |-> Plain(Note("Enhanced analysis encountered an error")),
          sources |-> PdfSources(top), analysis_type |-> "pdf_fallback"]
    ELSE [exc |-> FALSE,
          answer |-> Plain(TextPart(IF env.gen.text # <<>> THEN env.gen.text
                                    ELSE Unable)),
          sources |-> PdfSources(top), analysis_type |-> "enhanced_pdf"]

\* The try block of the attachment route and its except block
SemanticAnalysed(c, env, top, log, result) ==
    IF ~result.exc
    THEN Asked(Response(result.answer, ATTACHMENT_SEMANTIC, result.sources,
                        result.analysis_type), log, c)
    ELSE IF env.gen.kind = "raises"
    THEN Asked(Propagated(ATTACHMENT_SEMANTIC), log, c)
    ELSE Asked(Response(Generated(env.gen), ATTACHMENT_SEMANTIC,
                        PdfSources(top), "pdf_fallback"), log, c)

\* The attachment route after retrieval returned top
SemanticAnswer(c, env, top, log) ==
    IF top.exc THEN Asked(Propagated(ATTACHMENT_SEMANTIC), log, c)
    ELSE IF top.out = <<>>
    THEN Asked(Response(Plain(Note("I don't know based on the available attachments.")),
                        ATTACHMENT_SEMANTIC, <<>>, ""), log, c)
    ELSE SemanticAnalysed(c, env, top.out, log \o <<"pdf_agent", "generate">>,
                          analyze_pdf_with_agent(top.out, env))

AskSemantic(colls, c, k, env) ==
    SemanticAnswer(c, env, topk_from_collection(colls.sem, k, env.retrieval),
                   RetrievalLog("query_semantic", env.retrieval))

\* The specs the tabular route builds from the metadata of its hits
SpecsOf(hits) ==
    [i \in 1..Len(hits) |->
        Spec_(hits[i].meta.blob_uri, hits[i].meta.filename, hits[i].meta.sheet)]

\* The try block of the tabular route: neither the loader nor the reasoner
\* lets an exception out, so its except block is never entered
TabularAnalysed(specs, tables, tab_ans, log) ==
    Asked(Response(tab_ans.answer, ATTACHMENT_TABULAR, SpecSources(specs),
                   tab_ans.analysis_type), log, tables.cache)

TabularLoaded(q, env, specs, tables, log) ==
    TabularAnalysed(specs, tables, answer_with_pandasai(q, tables.out, env.tab), log)

\* A mutant of the tabular route: the test for an empty hit list is left out
TabularAnswer_NoShortCircuit(q, c, env, idx_hits, log) ==
    IF idx_hits.exc THEN Asked(Propagated(ATTACHMENT_TABULAR), log, c)
    ELSE TabularLoaded(q, env, SpecsOf(idx_hits.out),
                       load_dataframes(c, SpecsOf(idx_hits.out)),
                       log \o <<"load", "analyze">>)

\* The tabular route after retrieval returned idx_hits
TabularAnswer(q, c, env, idx_hits, log) ==
    IF idx_hits.exc THEN Asked(Propagated(ATTACHMENT_TABULAR), log, c)
    ELSE IF idx_hits.out = <<>>
    THEN Asked(Response(Plain(Note("No relevant tabular attachments found.")),
                        ATTACHMENT_TABULAR, <<>>, ""), log, c)
    ELSE TabularLoaded(q, env, SpecsOf(idx_hits.out),
                       load_dataframes(c, SpecsOf(idx_hits.out)),
                       log \o <<"load", "analyze">>)

\* A mutant of the tabular route: the index is asked for k entries
AskTabular_Uncapped(q, colls, c, k, env) ==
    TabularAnswer(q, c, env,
                  topk_from_collection(colls.tab, k, env.retrieval),
                  RetrievalLog("query_tabular", env.retrieval))

AskTabular(q, colls, c, k, env) ==
    TabularAnswer(q, c, env,
                  topk_from_collection(colls.tab, Min2(3, k), env.retrieval),
                  RetrievalLog("query_tabular", env.retrieval))

\* The dispatch of ask on the route the router chose
Dispatched(route, q, k, colls, c, env) ==
    IF route = MAIL_BODY_SEMANTIC THEN AskMail(colls, c, k, env)
    ELSE IF route = ATTACHMENT_SEMANTIC THEN AskSemantic(colls, c, k, env)
    ELSE IF route = ATTACHMENT_TABULAR THEN AskTabular(q, colls, c, k, env)
    ELSE Asked(Response(Plain(Note("I couldn't determine how to answer this question.")),
                        route, <<>>, ""), <<>>, c)

\* The router's model call comes before everything the dispatch does
AfterClassify(r) == Asked(r.resp, <<"classify">> \o r.log, r.cache)

\* ask: out is what the router's model call does with the question
ask(q, k, out, colls, c, env) ==
    AfterClassify(Dispatched(classify_intent(q, out).route, q, k, colls, c, env))

\* The reasoner at rest, in the specifications of the other components
TabIdle ==
    /\ tabQ = <<>>
    /\ tabTables = <<>>
    /\ tabEnv = NoEnv
    /\ tabRes = NoResult
    /\ tpc = "off"
    /\ worker = "none"
    /\ tabCalls = <<>>

\* No call of topk_from_collection yet
NoCall ==
    [made |-> FALSE, q |-> <<>>, q_emb |-> 0, k |-> 0, where |-> <<>>,
     state |-> <<>>, out |-> <<>>]

NoAnswer ==
    [kind |-> "none", answer |-> <<>>, route |-> <<>>, sources |-> <<>>,
     analysis_type |-> ""]

\* No call of _build_prompt
PromptIdle ==
    /\ promptQ = <<>>
    /\ promptCtx = <<>>
    /\ prompt = <<>>
    /\ ppc = "off"

\* The service before any request: empty collections, nothing asked
ServiceInit ==
    /\ MAIL_BODIES = <<>>
    /\ ATTACHMENTS_SEMANTIC = <<>>
    /\ ATTACHMENTS_TABULAR_IDX = <<>>
    /\ askEnv = NoAskEnv
    /\ askRes = NoAnswer
    /\ askLog = <<>>
    /\ retFirst = NoCall
    /\ retSecond = NoCall
    /\ nIngests = 0
    /\ nAsks = 0

\* reset_all is not called
ResetIdle == resetPc = "off"

\* No threads race for the cache
RaceIdle ==
    /\ raceKind = <<>>
    /\ racePc = <<>>
    /\ raceData = <<>>
    /\ raceRead = <<>>
    /\ raceLast = <<>>

\* main.py is not running
MainIdle ==
    /\ collection = <<>>
    /\ seen_hashes = {}
    /\ ingestReq = <<>>
    /\ ingestRes = <<>>
    /\ nMainIngests = 0

KwIdle == aqQuestion = <<>> /\ aqResult = <<>>

KeysIdle == cacheWrites = <<>>

ChunkIdle ==
    /\ ckWords = <<>>
    /\ ckMaxWords = 1
    /\ ckOverlap = 0
    /\ ckStart = 0
    /\ ckChunks = <<>>
    /\ cpc = "off"

LateIdle == KwIdle /\ KeysIdle /\ ChunkIdle

AuxIdle == ResetIdle /\ RaceIdle /\ MainIdle /\ LateIdle

ApiInit == ServiceInit /\ PromptIdle /\ AuxIdle

----------------------------------------------------------------------------
(* The router's state machine: one question, one call of classify_intent   *)

MaxFrags == 3

F_Sum == <<"S","u","m">>
F_by == <<"b","y">>
F_space == <<" ">>
F_PDF == <<"P","D","F">>
F_hi == <<"h","i">>
F_Attachment == <<"A","t","t","a","c","h","m","e","n","t">>
Fragments == {F_Sum, F_by, F_space, F_PDF, F_hi, F_Attachment}

\* The question of the specification's example P1
Q_average_by_region ==
    <<"w","h","a","t","'","s"," ","t","h","e"," ","a","v","e","r","a","g","e"," ",
      "r","e","v","e","n","u","e"," ","b","y"," ","r","e","g","i","o","n">>

Questions ==
    {Concat(fs) : fs \in UNION {[1..n -> Fragments] : n \in 0..MaxFrags}}
    \cup {Q_average_by_region}

NoOutcome == [kind |-> "none", parse |-> "invalid", prose |-> S_empty,
              route |-> <<>>, cnf |-> <<>>, reason |-> S_empty]

RouterInit ==
    /\ question \in Questions
    /\ llmOut = NoOutcome
    /\ routed = Raise
    /\ rpc = "idle"

RouterIdle ==
    /\ question = <<>>
    /\ llmOut = NoOutcome
    /\ routed = Raise
    /\ rpc = "off"

ClassifyIntent ==
    /\ rpc = "idle"
    /\ \E out \in LlmOutcomes :
          /\ llmOut' = out
          /\ routed' = classify_intent(question, out)
    /\ rpc' = "done"
    /\ UNCHANGED <<question, loadVars, tabVars, apiVars>>

RouterNext == ClassifyIntent

InitRouter == RouterInit /\ LoadIdle /\ TabIdle /\ ApiInit
SpecRouter == InitRouter /\ [][RouterNext]_vars

InitLoad == LoadInit /\ RouterIdle /\ TabIdle /\ ApiInit
SpecLoad == InitLoad /\ [][LoadNext]_vars
SpecBackendLoad == InitLoad /\ [][BackendLoadNext]_vars

----------------------------------------------------------------------------
(* The reasoner's state machine: one question over loaded tables, one call *)
(* of answer_with_pandasai                                                 *)

MaxTables == 2

C_Product == <<"P","r","o","d","u","c","t">>
V_Widget == <<"W","i","d","g","e","t">>
V_Gadget == <<"G","a","d","g","e","t">>
T_products ==
    Table(<<C_Product, C_Region, C_Sales>>,
          << <<Str(V_Widget), Str(V_North), Int_(10)>>,
             <<Str(V_Gadget), Str(V_South), Int_(30)>>,
             <<Str(V_Widget), Str(V_South), Int_(5)>> >>)
\* A table whose region column holds numbers
T_codes ==
    Table(<<C_Region, C_Country>>,
          << <<Int_(1), Str(V_India)>>, <<Int_(2), Str(V_Germany)>> >>)

\* A table with more rows than any preview shows
T_six ==
    Table(<<C_Sales>>,
          << <<Int_(1)>>, <<Int_(2)>>, <<Int_(3)>>, <<Int_(4)>>, <<Int_(5)>>, <<Int_(6)>> >>)

\* Eleven rows, each an Asian country of its own, the region written in
\* two spellings
V_ASIA == <<"A","S","I","A">>
T_eleven ==
    Table(<<C_Region, C_Country>>,
          [i \in 1..11 |->
              <<Str(IF i % 2 = 1 THEN V_Asia ELSE V_ASIA), Str(<<"K">> \o StrNat(i))>>])

\* Sales in four regions
V_East == <<"E","a","s","t">>
V_West == <<"W","e","s","t">>
T_four ==
    Table(<<C_Region, C_Sales>>,
          << <<Str(V_North), Int_(100)>>, <<Str(V_South), Int_(200)>>,
             <<Str(V_East), Int_(50)>>, <<Str(V_West), Int_(70)>>,
             <<Str(V_North), Int_(50)>> >>)

L_asia == <<"a","s","i","a",".","c","s","v">>
L_four == <<"f","o","u","r",".","c","s","v">>
L_eleven == <<"e","l","e","v","e","n",".","c","s","v">>
L_six == <<"s","i","x",".","c","s","v">>
L_sales == <<"s","a","l","e","s",".","c","s","v">>
L_S2 == <<"b","o","o","k",".","x","l","s","x",":","S","2">>
L_products == <<"p","r","o","d","u","c","t","s",".","c","s","v">>
L_codes == <<"c","o","d","e","s",".","c","s","v">>

TablePool ==
    {Loaded(L_asia, T_asia), Loaded(L_sales, T_sales), Loaded(L_S2, T_empty),
     Loaded(L_products, T_products), Loaded(L_codes, T_codes), Loaded(L_six, T_six),
     Loaded(L_eleven, T_eleven), Loaded(L_four, T_four)}

TableLists == UNION {[1..n -> TablePool] : n \in 0..MaxTables}

Q_asia == <<"h","o","w"," ","m","a","n","y"," ","c","o","u","n","t","r","i","e","s"," ","a","r","e"," ","i","n"," ","A","s","i","a","?">>
Q_by_region == <<"t","o","t","a","l"," ","s","a","l","e","s"," ","b","y"," ","r","e","g","i","o","n">>
Q_total == <<"W","h","a","t"," ","a","r","e"," ","t","h","e"," ","t","o","t","a","l"," ","s","a","l","e","s","?">>
Q_summary == <<"S","h","o","w"," ","m","e"," ","t","h","e"," ","d","a","t","a"," ","s","u","m","m","a","r","y">>
Q_product == <<"W","h","i","c","h"," ","p","r","o","d","u","c","t"," ","h","a","s"," ","m","a","x","i","m","u","m"," ","s","a","l","e","s","?">>

TabQuestions ==
    {Q_asia, Q_by_region, Q_total, Q_summary, Q_product, Q_average_by_region}

TabInit ==
    /\ tabQ \in TabQuestions
    /\ tabTables \in TableLists
    /\ tabEnv = NoEnv
    /\ tabRes = NoResult
    /\ tpc = "idle"
    /\ worker = "none"
    /\ tabCalls = <<>>

AnswerWithPandasai ==
    /\ tpc = "idle"
    /\ \E env \in TabEnvs :
          /\ tabEnv' = env
          /\ tabRes' = answer_with_pandasai(tabQ, tabTables, env)
          /\ tabCalls' = Invoked(tabTables, env)
    /\ tpc' = "done"
    /\ UNCHANGED <<tabQ, tabTables, worker, routerVars, loadVars, apiVars>>

TabNext == AnswerWithPandasai

InitTab == TabInit /\ RouterIdle /\ LoadIdle /\ ApiInit
SpecTab == InitTab /\ [][TabNext]_vars

----------------------------------------------------------------------------
(* The steps of one call of answer_with_pandasai: the Tier A analysis runs *)
(* in a thread of a ThreadPoolExecutor when the caller is in an event loop *)

\* The call takes the thread path: tables, agent and event loop are there
ThreadPath(env) == env.importable /\ env.api_key /\ env.loop

\* A call that does not take the thread path, from entry to return
ReturnDirectly ==
    /\ tpc = "idle"
    /\ \E env \in TabEnvs :
          /\ tabTables = <<>> \/ ~ThreadPath(env)
          /\ tabEnv' = env
          /\ tabRes' = answer_with_pandasai(tabQ, tabTables, env)
          /\ tabCalls' = Invoked(tabTables, env)
    /\ tpc' = "done"
    /\ UNCHANGED <<tabQ, tabTables, worker, routerVars, loadVars, apiVars>>

\* executor.submit(run_in_thread): the worker starts and the caller waits in
\* future.result(timeout=60).  Only a call that outlasts the timeout may be
\* one that never completes.
Submit ==
    /\ tpc = "idle"
    /\ tabTables # <<>>
    /\ \E env \in TabEnvs, completes \in BOOLEAN :
          /\ ThreadPath(env)
          /\ ~completes => env.slow
          /\ tabEnv' = env
          /\ worker' = IF completes THEN "running" ELSE "hung"
          /\ tabCalls' = <<"analyze_tabular_data">>
    /\ tpc' = "waiting"
    /\ UNCHANGED <<tabQ, tabTables, tabRes, routerVars, loadVars, apiVars>>

\* run_in_thread returns: within the timeout when the call is not slow,
\* after the timeout has expired when it is
RunInThreadCompletes ==
    /\ worker = "running"
    /\ \/ tpc = "waiting" /\ ~tabEnv.slow
       \/ tpc = "shutdown"
    /\ worker' = "finished"
    /\ UNCHANGED <<tabQ, tabTables, tabEnv, tabRes, tpc, tabCalls, routerVars, loadVars, apiVars>>

\* future.result returns what Tier A returned, the with block is left with
\* an idle worker, and the result is returned
FutureResult ==
    /\ tpc = "waiting"
    /\ worker = "finished"
    /\ tabRes' = analyze_tabular_data(tabQ, tabTables, tabEnv.model)
    /\ tpc' = "done"
    /\ UNCHANGED <<tabQ, tabTables, tabEnv, worker, tabCalls, routerVars, loadVars, apiVars>>

\* future.result raises TimeoutError after 60 s; the exception leaves the
\* with block, whose exit calls executor.shutdown(wait=True)
FutureTimeout ==
    /\ tpc = "waiting"
    /\ tabEnv.slow
    /\ worker # "finished"
    /\ tpc' = "shutdown"
    /\ UNCHANGED <<tabQ, tabTables, tabEnv, tabRes, worker, tabCalls, routerVars, loadVars, apiVars>>

\* executor.shutdown(wait=True) returns once the worker thread has ended;
\* then the TimeoutError reaches "except Exception" and the fallback runs
ShutdownThenFallback ==
    /\ tpc = "shutdown"
    /\ worker = "finished"
    /\ tabRes' = _basic_tabular_analysis(tabQ, tabTables)
    /\ tabCalls' = Append(tabCalls, "_basic_tabular_analysis")
    /\ tpc' = "done"
    /\ UNCHANGED <<tabQ, tabTables, tabEnv, worker, routerVars, loadVars, apiVars>>

TabStepNext ==
    \/ ReturnDirectly
    \/ Submit
    \/ RunInThreadCompletes
    \/ FutureResult
    \/ FutureTimeout
    \/ ShutdownThenFallback

\* The caller's thread returns from answer_with_pandasai: the step of
\* FutureResult or of ShutdownThenFallback, as seen in its position
CallerReturns ==
    /\ tpc \in {"waiting", "shutdown"}
    /\ worker = "finished"
    /\ tpc' = "done"

\* A worker that can complete does, the timer of future.result fires, and a
\* caller that can go on does
SpecTabSteps ==
    /\ InitTab
    /\ [][TabStepNext]_vars
    /\ WF_vars(RunInThreadCompletes)
    /\ WF_vars(FutureTimeout)
    /\ WF_tpc(CallerReturns)

----------------------------------------------------------------------------
(* The service's state machine: ingestion requests and /ask requests over  *)
(* the three collections and the byte cache                                *)

MaxIngests == 2
MaxAsks == 1

ID_m1 == <<"m","1">>
F_p_pdf == <<"p",".","p","d","f">>
CT_csv == <<"t","e","x","t","/","c","s","v">>
CT_xlsx == <<"a","p","p","l","i","c","a","t","i","o","n","/","v","n","d",".","o","p","e","n","x","m","l","f","o","r","m","a","t","s","-","o","f","f","i","c","e","d","o","c","u","m","e","n","t",".","s","p","r","e","a","d","s","h","e","e","t","m","l",".","s","h","e","e","t">>
CT_pdf == <<"a","p","p","l","i","c","a","t","i","o","n","/","p","d","f">>
S_page == <<"Q","3"," ","r","e","p","o","r","t">>

MailReq(messageId, subject, bodyText) ==
    [messageId |-> messageId, subject |-> subject, bodyText |-> bodyText]
AttReq(messageId, attachmentId, filename, contentType, blob_uri) ==
    [messageId |-> messageId, attachmentId |-> attachmentId, filename |-> filename,
     contentType |-> contentType, blob_uri |-> blob_uri]

\* A workbook of four sheets that all have rows
B_four_sheets ==
    XlsxBytes(<<Sheet(N_S1, T_asia), Sheet(N_S2, T_sales),
                Sheet(N_S3, T_asia), Sheet(N_S9, T_sales)>>)

MailReqs == {MailReq(ID_m1, S_see_mail, S_see_mail), MailReq(ID_m1, S_see_mail, <<" ">>)}
AttReqs ==
    {AttReq(ID_m1, <<"1">>, F_a_csv, CT_csv, U_a),
     AttReq(ID_m1, <<"2">>, F_c_xlsx, CT_xlsx, U_b),
     AttReq(ID_m1, <<"3">>, F_e_csv, CT_csv, U_x)}
ByteReqs ==
    {[req |-> AttReq(ID_m1, <<"4">>, F_a_csv, CT_csv, <<>>), data |-> B_sales_csv],
     [req |-> AttReq(ID_m1, <<"5">>, F_p_pdf, CT_pdf, <<>>), data |-> PdfBytes(<<S_page>>)],
     [req |-> AttReq(ID_m1, <<"6">>, F_c_xlsx, CT_xlsx, <<>>), data |-> B_four_sheets]}

AskQuestions == {Q_asia, Q_by_region, F_hi}
AskKs == {1, 6}
AskLlmOutcomes ==
    {o \in LlmOutcomes :
        \/ o.kind = "raise"
        \/ /\ o.parse = "object"
           /\ o.prose = S_empty
           /\ o.route \in {<<r>> : r \in Route}
           /\ o.cnf = <<Num(100)>>
           /\ o.reason = S_empty}

CollsNow == Colls(MAIL_BODIES, ATTACHMENTS_SEMANTIC, ATTACHMENTS_TABULAR_IDX)

\* The effect of an ingestion handler on the collections and the cache
Ingested(r) ==
    /\ MAIL_BODIES' = r.colls.mail
    /\ ATTACHMENTS_SEMANTIC' = r.colls.sem
    /\ ATTACHMENTS_TABULAR_IDX' = r.colls.tab
    /\ cache' = r.cache
    /\ nIngests' = nIngests + 1
    /\ UNCHANGED <<askEnv, askRes, askLog, retVars, promptVars, auxVars, nAsks, loadSpecs, loadRes, fetchLog,
                   nLoads, routerVars, tabVars>>

IngestMail ==
    /\ nIngests < MaxIngests
    /\ \E req \in MailReqs, embed_ok \in BOOLEAN :
          Ingested(ingest_mail(CollsNow, cache, req, embed_ok))

IngestAttachment ==
    /\ nIngests < MaxIngests
    /\ \E req \in AttReqs, embed_ok \in BOOLEAN :
          Ingested(ingest_attachment(CollsNow, cache, req, embed_ok))

IngestAttachmentBytes ==
    /\ nIngests < MaxIngests
    /\ \E b \in ByteReqs, embed_ok \in BOOLEAN :
          Ingested(ingest_attachment_bytes(CollsNow, cache, b.req, b.data, embed_ok))

\* The effect of one /ask: what it returned or raised, the calls it made to
\* its collaborators, and the byte cache the loader leaves
Answered(env, r) ==
    /\ askEnv' = env
    /\ askRes' = r.resp
    /\ askLog' = r.log
    /\ cache' = r.cache

Ask ==
    /\ nAsks < MaxAsks
    /\ \E q \in AskQuestions, k \in AskKs, out \in AskLlmOutcomes :
          \E env \in AskEnvs(classify_intent(q, out).route) :
             /\ Answered(env, ask(q, k, out, CollsNow, cache, env))
             /\ routed' = classify_intent(q, out)
    /\ nAsks' = nAsks + 1
    /\ UNCHANGED <<collVars, retVars, promptVars, auxVars, nIngests, loadSpecs, loadRes, fetchLog, nLoads,
                   question, llmOut, rpc, tabVars>>

ApiNext == IngestMail \/ IngestAttachment \/ IngestAttachmentBytes \/ Ask

InitAsk == ApiInit /\ RouterIdle /\ LoadIdle /\ TabIdle
SpecAsk == InitAsk /\ [][ApiNext]_vars

----------------------------------------------------------------------------
(* The retriever's state machine: one collection that grows, and two calls *)
(* of topk_from_collection (backend/rag/retriever.py 15-24) with their     *)
(* ranking and filter spelled out                                          *)

\* The stand-in for the vector stored with a document, and the distance of a
\* stored document from the vector of the query
Embedded(text) == Len(text)
Distance(item, q_emb) ==
    IF Embedded(item.doc.text) >= q_emb THEN Embedded(item.doc.text) - q_emb
    ELSE q_emb - Embedded(item.doc.text)

\* where: an equality filter over one metadata field, <<>> when not provided
Where(field, value) == <<[field |-> field, value |-> value]>>
MatchesWhere(meta, where) == where = <<>> \/ meta[where[1].field] = where[1].value

\* A mutant of the ranking: equally near documents come newest first once a
\* call has been made
Ranked_TiesByCallCount(coll, q_emb) ==
    SortBy(LAMBDA a, b : IF retFirst.made THEN Distance(a, q_emb) <= Distance(b, q_emb)
                         ELSE Distance(a, q_emb) < Distance(b, q_emb),
           coll)

\* The ranking of collection.query: nearest first, equally near documents in
\* the order of their insertion
Ranked(coll, q_emb) ==
    SortBy(LAMBDA a, b : Distance(a, q_emb) < Distance(b, q_emb), coll)

\* collection.query(query_embeddings=[q_emb], n_results=n, where=where)
collection_query(coll, q_emb, n, where) ==
    FirstN(Ranked(SelectSeq(coll, LAMBDA item : MatchesWhere(item.meta, where)), q_emb), n)

\* topk_from_collection after embed_text returned q_emb: the documents and
\* the metadata of the query's result, zipped
TopK(coll, q_emb, k, where) ==
    [i \in 1..Len(collection_query(coll, q_emb, k, where)) |->
        [text |-> collection_query(coll, q_emb, k, where)[i].doc,
         meta |-> collection_query(coll, q_emb, k, where)[i].meta]]

Call(q, q_emb, k, where, state, out) ==
    [made |-> TRUE, q |-> q, q_emb |-> q_emb, k |-> k, where |-> where,
     state |-> state, out |-> out]

ID_d1 == <<"d","1">>
ID_d2 == <<"d","2">>
ID_d3 == <<"d","3">>
RetPool ==
    {Item(ID_d1, TextDoc(F_hi), Meta("mail_body", ID_m1, <<>>, <<>>, <<>>, <<>>, 0, F_hi)),
     Item(ID_d2, TextDoc(F_by), Meta("attachment_pdf", ID_m1, ID_d2, F_p_pdf, <<>>, <<>>, 1, <<>>)),
     Item(ID_d3, TextDoc(F_Sum), Meta("mail_body", ID_m1, <<>>, <<>>, <<>>, <<>>, 0, F_Sum))}
RetQuestions == {F_hi, F_Sum}
RetEmbeddings == {2, 3}
RetKs == {1, 3}
RetFilters == {<<>>, Where("type", "mail_body")}

\* collection.add of one document
CollectionAdd ==
    /\ \E item \in RetPool :
          /\ \A i \in 1..Len(MAIL_BODIES) : MAIL_BODIES[i].id # item.id
          /\ MAIL_BODIES' = Add(MAIL_BODIES, <<item>>)
    /\ UNCHANGED <<ATTACHMENTS_SEMANTIC, ATTACHMENTS_TABULAR_IDX, askEnv, askRes, askLog,
                   retVars, promptVars, auxVars, nIngests, nAsks, routerVars, loadVars,
                   tabVars>>

\* The call that the action makes: embed_text returns q_emb for q
Retrieved(q, q_emb, k, where) ==
    Call(q, q_emb, k, where, MAIL_BODIES, TopK(MAIL_BODIES, q_emb, k, where))

TopKFirst ==
    /\ ~retFirst.made
    /\ \E q \in RetQuestions, q_emb \in RetEmbeddings, k \in RetKs, where \in RetFilters :
          retFirst' = Retrieved(q, q_emb, k, where)
    /\ UNCHANGED <<collVars, askEnv, askRes, askLog, retSecond, promptVars, auxVars, nIngests, nAsks,
                   routerVars, loadVars, tabVars>>

TopKSecond ==
    /\ retFirst.made
    /\ ~retSecond.made
    /\ \E q \in RetQuestions, q_emb \in RetEmbeddings, k \in RetKs, where \in RetFilters :
          retSecond' = Retrieved(q, q_emb, k, where)
    /\ UNCHANGED <<collVars, askEnv, askRes, askLog, retFirst, promptVars, auxVars, nIngests, nAsks,
                   routerVars, loadVars, tabVars>>

RetrieveNext == CollectionAdd \/ TopKFirst \/ TopKSecond

InitRetrieve == ApiInit /\ RouterIdle /\ LoadIdle /\ TabIdle
SpecRetrieve == InitRetrieve /\ [][RetrieveNext]_vars

----------------------------------------------------------------------------
(* The prompt builder: _build_prompt of backend/rag/api.py 279-295         *)

PromptHeader ==
    <<"Y","o","u"," ","a","r","e"," ","a"," ","h","e","l","p","f","u","l"," ","a","s","s","i","s","t","a","n","t","."," ","A","n","s","w","e","r"," ","u","s","i","n","g"," ","O","N","L","Y"," ","t","h","e"," ","p","r","o","v","i","d","e","d"," ","c","o","n","t","e","x","t",".","\n">>
    \o <<"I","f"," ","t","h","e"," ","a","n","s","w","e","r"," ","i","s","n","'","t"," ","i","n"," ","t","h","e"," ","c","o","n","t","e","x","t",","," ","s","a","y"," ","y","o","u"," ","d","o","n","'","t"," ","k","n","o","w",".","\n">>
    \o <<"C","i","t","e"," ","s","o","u","r","c","e","s"," ","w","i","t","h"," ","p","a","g","e","/","s","h","e","e","t"," ","i","n","f","o"," ","i","f"," ","p","r","e","s","e","n","t",".","\n","\n">>
W_source == <<"s","o","u","r","c","e">>

\* m.get("filename") or m.get("subject") or "source"
SourceOf(m) ==
    IF m.filename # <<>> THEN m.filename
    ELSE IF m.subject # <<>> THEN m.subject
    ELSE W_source

\* loc: the page when it is truthy, else the sheet when it is, else ""
LocOf(m) ==
    IF m.page # 0 THEN <<"(","p","a","g","e"," ">> \o StrNat(m.page) \o <<")">>
    ELSE IF m.sheet # <<>> THEN <<"(","s","h","e","e","t"," ">> \o m.sheet \o <<")">>
    ELSE <<>>

\* A mutant of the block: enumerate(contexts) without start=1
PromptBlock_FromZero(i, ctx) ==
    <<"[">> \o StrNat(i - 1) \o <<"]", " ">> \o SourceOf(ctx.meta) \o <<" ">>
    \o LocOf(ctx.meta) \o <<"\n">> \o ctx.text.text \o <<"\n">>

\* f"[{i}] {src} {loc}\n{ctx.get('text','')}\n"
PromptBlock(i, ctx) ==
    <<"[">> \o StrNat(i) \o <<"]", " ">> \o SourceOf(ctx.meta) \o <<" ">>
    \o LocOf(ctx.meta) \o <<"\n">> \o ctx.text.text \o <<"\n">>

\* "\n".join(blocks)
RECURSIVE JoinLines(_)
JoinLines(blocks) ==
    IF blocks = <<>> THEN <<>>
    ELSE IF Len(blocks) = 1 THEN blocks[1]
    ELSE blocks[1] \o <<"\n">> \o JoinLines(Tail(blocks))

_build_prompt(q, contexts) ==
    PromptHeader \o <<"C","o","n","t","e","x","t",":","\n">>
    \o JoinLines([i \in 1..Len(contexts) |-> PromptBlock(i, contexts[i])])
    \o <<"\n","Q","u","e","s","t","i","o","n",":"," ">> \o q \o <<"\n","A","n","s","w","e","r",":">>

MaxContexts == 2

Context(text, filename, subject, page, sheet) ==
    [text |-> TextDoc(text),
     meta |-> Meta("", <<>>, <<>>, filename, sheet, <<>>, page, subject)]

F_s_xlsx == <<"s",".","x","l","s","x">>
SH_S1 == <<"S","1">>
PromptContexts ==
    {Context(F_hi, <<>>, F_Sum, 0, <<>>),
     Context(F_by, F_p_pdf, <<>>, 12, <<>>),
     Context(F_PDF, F_s_xlsx, <<>>, 0, SH_S1),
     Context(F_Sum, F_p_pdf, <<>>, 1, SH_S1),
     Context(F_Attachment, <<>>, <<>>, 0, <<>>)}
PromptQuestions == {F_hi, Q_total}

PromptInit ==
    /\ promptQ \in PromptQuestions
    /\ promptCtx \in UNION {[1..n -> PromptContexts] : n \in 0..MaxContexts}
    /\ prompt = <<>>
    /\ ppc = "idle"

BuildPrompt ==
    /\ ppc = "idle"
    /\ prompt' = _build_prompt(promptQ, promptCtx)
    /\ ppc' = "done"
    /\ UNCHANGED <<promptQ, promptCtx, collVars, askEnv, askRes, askLog, retVars, auxVars,
                   nIngests, nAsks, routerVars, loadVars, tabVars>>

PromptNext == BuildPrompt

InitPrompt == PromptInit /\ ServiceInit /\ AuxIdle /\ RouterIdle /\ LoadIdle /\ TabIdle
SpecPrompt == InitPrompt /\ [][PromptNext]_vars

----------------------------------------------------------------------------
(* The vector store: reset_all of be/rag/vector_store.py 19-23             *)

\* coll.get(ids=None, where={}, limit=10_000)
ResetLimit == 10000

\* The ids that coll.get returns: those of the first limit entries
GetIds(coll, limit) == [i \in 1..Min2(limit, Len(coll)) |-> coll[i].id]

\* One pass of the loop of reset_all: coll.delete(ids=ids) removes the
\* entries that coll.get returned, and they are the first limit entries
ResetOne(coll, limit) ==
    IF GetIds(coll, limit) = <<>> THEN coll
    ELSE SubSeq(coll, Len(GetIds(coll, limit)) + 1, Len(coll))

\* A collection of n entries with different ids
Bulk(n) ==
    [i \in 1..n |->
        Item(StrNat(i), TextDoc(F_hi), Meta("mail_body", ID_m1, <<>>, <<>>, <<>>, <<>>, 0, F_hi))]
BulkSizes == {0, 1, 2, ResetLimit, ResetLimit + 1}

ResetInit ==
    /\ \E a \in BulkSizes : MAIL_BODIES = Bulk(a)
    /\ \E b \in BulkSizes : ATTACHMENTS_SEMANTIC = Bulk(b)
    /\ \E c \in BulkSizes : ATTACHMENTS_TABULAR_IDX = Bulk(c)
    /\ askEnv = NoAskEnv
    /\ askRes = NoAnswer
    /\ askLog = <<>>
    /\ retFirst = NoCall
    /\ retSecond = NoCall
    /\ nIngests = 0
    /\ nAsks = 0
    /\ resetPc = "idle"

ResetAll ==
    /\ resetPc = "idle"
    /\ MAIL_BODIES' = ResetOne(MAIL_BODIES, ResetLimit)
    /\ ATTACHMENTS_SEMANTIC' = ResetOne(ATTACHMENTS_SEMANTIC, ResetLimit)
    /\ ATTACHMENTS_TABULAR_IDX' = ResetOne(ATTACHMENTS_TABULAR_IDX, ResetLimit)
    /\ resetPc' = "done"
    /\ UNCHANGED <<askEnv, askRes, askLog, retVars, promptVars, raceVars, mainVars, lateVars, nIngests, nAsks,
                   routerVars, loadVars, tabVars>>

ResetNext == ResetAll

InitReset == ResetInit /\ PromptIdle /\ RaceIdle /\ MainIdle /\ LateIdle /\ RouterIdle /\ LoadIdle /\ TabIdle
SpecReset == InitReset /\ [][ResetNext]_vars

----------------------------------------------------------------------------
(* Two threads and the byte cache: _load_blob_bytes of be/rag/             *)
(* tabular_agent.py 9-40 and ingest_attachment of backend/rag/api.py 70-87 *)
(* working on the same locator and filename, one statement at a time       *)

Threads == {1, 2}
RaceUrl == U_a
RaceFilename == L_sales
RaceKey == _cache_key(RaceUrl, RaceFilename)

\* What the locator serves to one download: its content may change between
\* two downloads
RaceContents == {B_sales_csv, B_book}

RaceInit ==
    /\ raceKind \in [Threads -> {"load", "ingest"}]
    /\ racePc = [t \in Threads |-> "start"]
    /\ raceData = [t \in Threads |-> EmptyBytes]
    /\ raceRead = [t \in Threads |-> <<>>]
    /\ raceLast = <<>>
    /\ cache = EmptyCache
    /\ loadSpecs = <<>>
    /\ loadRes = NoLoad
    /\ fetchLog = <<>>
    /\ nLoads = 0

RaceFrame == UNCHANGED <<raceKind, loadSpecs, loadRes, fetchLog, nLoads, resetPc,
                         routerVars, tabVars, collVars, askEnv, askRes, askLog,
                         retVars, promptVars, mainVars, lateVars, nIngests, nAsks>>

\* cached_data = get_cached_blob_data(url, filename); a truthy value is
\* returned at once
ReadCache(t) ==
    /\ raceKind[t] = "load"
    /\ racePc[t] = "start"
    /\ raceRead' = [raceRead EXCEPT ![t] = get_cached_blob_data(cache, RaceUrl, RaceFilename)]
    /\ racePc' = [racePc EXCEPT ![t] =
                      IF raceRead'[t] # <<>> /\ Truthy(raceRead'[t][1])
                      THEN "returned" ELSE "download"]
    /\ UNCHANGED <<cache, raceData, raceLast>>
    /\ RaceFrame

\* client.get(url) of the loader, _download_bytes of the ingestion
Download(t) ==
    /\ \/ raceKind[t] = "load" /\ racePc[t] = "download"
       \/ raceKind[t] = "ingest" /\ racePc[t] = "start"
    /\ \E content \in RaceContents :
          raceData' = [raceData EXCEPT ![t] = content]
    /\ racePc' = [racePc EXCEPT ![t] = "store"]
    /\ UNCHANGED <<cache, raceRead, raceLast>>
    /\ RaceFrame

\* The download fails: the exception leaves the function before the cache
\* is written
DownloadFails(t) ==
    /\ \/ raceKind[t] = "load" /\ racePc[t] = "download"
       \/ raceKind[t] = "ingest" /\ racePc[t] = "start"
    /\ racePc' = [racePc EXCEPT ![t] = "raised"]
    /\ UNCHANGED <<cache, raceData, raceRead, raceLast>>
    /\ RaceFrame

\* cache_blob_data(url, filename, data): _data_cache[key] = data is one
\* dictionary store of an immutable bytes object
Store(t) ==
    /\ racePc[t] = "store"
    /\ cache' = cache_blob_data(cache, RaceUrl, RaceFilename, raceData[t])
    /\ raceLast' = <<raceData[t]>>
    /\ racePc' = [racePc EXCEPT ![t] = "stored"]
    /\ UNCHANGED <<raceData, raceRead>>
    /\ RaceFrame

RaceNext == \E t \in Threads : ReadCache(t) \/ Download(t) \/ DownloadFails(t) \/ Store(t)

InitRace ==
    RaceInit /\ RouterIdle /\ TabIdle /\ ServiceInit /\ PromptIdle /\ ResetIdle /\ MainIdle /\ LateIdle
SpecRace == InitRace /\ [][RaceNext]_vars

----------------------------------------------------------------------------
(* The single-collection service of backend/main.py: /ingest, lines 160-257 *)

DefaultMaxWords == 900
DefaultOverlap == 80

\* One document per data row of every sheet that has any row: "Sheet: s,
\* Row r | header: value | ..." with r counted from 2; bytes that are no
\* workbook raise
RowDoc(sheet, r, cols, cells) == Doc("row", <<>>, sheet, cols, r, <<cells>>)
RowDocs(sh) ==
    [r \in 1..Len(sh.table.rows) |-> RowDoc(sh.name, r + 1, sh.table.cols, sh.table.rows[r])]
RECURSIVE AllRowDocs(_)
AllRowDocs(sheets) ==
    IF sheets = <<>> THEN <<>>
    ELSE (IF Head(sheets).table.cols # <<>> THEN RowDocs(Head(sheets)) ELSE <<>>)
         \o AllRowDocs(Tail(sheets))
parse_xlsx_bytes(data) ==
    IF data.fmt # "xlsx" THEN [exc |-> TRUE, out |-> <<>>]
    ELSE [exc |-> FALSE, out |-> AllRowDocs(data.sheets)]

\* The chunks of the pages of a PDF, in page order
RECURSIVE PageChunks(_)
PageChunks(pages) ==
    IF pages = <<>> THEN <<>>
    ELSE [i \in 1..Len(chunk_text(Head(pages).text, DefaultMaxWords, DefaultOverlap)) |->
             TextDoc(chunk_text(Head(pages).text, DefaultMaxWords, DefaultOverlap)[i])]
         \o PageChunks(Tail(pages))

\* A chunk that /ingest is about to store: its id, its document and the
\* file it came from
Candidate(id, doc, filename) == [id |-> id, doc |-> doc, filename |-> filename]
Email(subject, bodyText, attachments) ==
    [subject |-> subject, bodyText |-> bodyText, attachments |-> attachments]
Upload(filename, content_type, content) ==
    [filename |-> filename, content_type |-> content_type, content |-> content]

\* stable_email_id: the digest of subject, sender and date, taken as
\* one-to-one on the subject
stable_email_id(email) == email.subject

W_dash_body == <<"-","b","o","d","y","-">>
BodyCandidates(email, chunks) ==
    IF Strip(email.bodyText) = <<>> THEN <<>>
    ELSE [i \in 1..Len(chunks) |->
             Candidate(stable_email_id(email) \o W_dash_body \o StrNat(i - 1),
                       TextDoc(chunks[i]), <<>>)]

\* parsed_chunks of one attachment, with the ids of enumerate(parsed_chunks)
ParsedCandidates(email, f, parsed) ==
    [exc |-> parsed.exc,
     out |-> [i \in 1..Len(parsed.out) |->
                 Candidate(stable_email_id(email) \o <<"-">> \o f.filename \o <<"-">>
                               \o StrNat(i - 1),
                           parsed.out[i], f.filename)]]

PdfParsed(pages) ==
    [exc |-> pages.exc, out |-> IF pages.exc THEN <<>> ELSE PageChunks(pages.out)]

W_spreadsheetml_sheet == <<"s","p","r","e","a","d","s","h","e","e","t","m","l",".","s","h","e","e","t">>
AttachmentCandidates(email, f) ==
    IF Contains(<<"p","d","f">>, Lower(f.content_type)) \/ EndsWith(Lower(f.filename), EXT_pdf)
    THEN ParsedCandidates(email, f, PdfParsed(parse_pdf_bytes(f.content)))
    ELSE IF \/ Contains(W_spreadsheetml_sheet, Lower(f.content_type))
            \/ EndsWith(Lower(f.filename), EXT_xlsx)
    THEN ParsedCandidates(email, f, parse_xlsx_bytes(f.content))
    ELSE [exc |-> FALSE, out |-> <<>>]

\* The candidates of the attachments up to the first one whose parse raises
RECURSIVE AttachmentsFrom(_, _)
Continued(first, rest) ==
    IF first.exc THEN first
    ELSE [exc |-> rest.exc, out |-> first.out \o rest.out]
AttachmentsFrom(email, atts) ==
    IF atts = <<>> THEN [exc |-> FALSE, out |-> <<>>]
    ELSE IF AttachmentCandidates(email, Head(atts)).exc
    THEN AttachmentCandidates(email, Head(atts))
    ELSE Continued(AttachmentCandidates(email, Head(atts)),
                   AttachmentsFrom(email, Tail(atts)))

\* sha1 of the chunk's text, taken as one-to-one: a chunk whose hash is in
\* seen is skipped, the others are marked as seen and kept
RECURSIVE Deduped(_, _, _)
Deduped(cands, seen, kept) ==
    IF cands = <<>> THEN [kept |-> kept, seen |-> seen]
    ELSE IF Head(cands).doc \in seen THEN Deduped(Tail(cands), seen, kept)
    ELSE Deduped(Tail(cands), seen \cup {Head(cands).doc}, Append(kept, Head(cands)))

MainItems(kept) ==
    [i \in 1..Len(kept) |->
        Item(kept[i].id, kept[i].doc,
             Meta("", <<>>, <<>>, kept[i].filename, kept[i].doc.sheet, <<>>, 0, <<>>))]

Ingest_(exc, coll, seen, chunks) ==
    [exc |-> exc, coll |-> coll, seen |-> seen, chunks |-> chunks]

\* The end of /ingest: nothing to store, or embed_texts and collection.add
Embedded_(coll, d, embed_ok, add_ok) ==
    IF d.kept = <<>> THEN Ingest_(FALSE, coll, d.seen, 0)
    ELSE IF ~embed_ok \/ ~add_ok THEN Ingest_(TRUE, coll, d.seen, 0)
    ELSE Ingest_(FALSE, Add(coll, MainItems(d.kept)), d.seen, Len(d.kept))

\* The attachments parsed: a parse that raises ends the request after the
\* hashes of the chunks before it were added to seen_hashes
Collected(coll, seen, body, atts, embed_ok, add_ok) ==
    IF atts.exc
    THEN Ingest_(TRUE, coll, Deduped(body \o atts.out, seen, <<>>).seen, 0)
    ELSE Embedded_(coll, Deduped(body \o atts.out, seen, <<>>), embed_ok, add_ok)

ingest(coll, seen, email, embed_ok, add_ok) ==
    Collected(coll, seen,
              BodyCandidates(email, chunk_text(email.bodyText, DefaultMaxWords, DefaultOverlap)),
              AttachmentsFrom(email, email.attachments), embed_ok, add_ok)

MaxMainIngests == 2

Emails ==
    {Email(F_hi, F_hi, <<>>),
     Email(F_hi, <<>>, <<Upload(F_c_xlsx, CT_xlsx, B_book)>>),
     Email(F_Sum, F_hi, <<Upload(F_p_pdf, CT_pdf, PdfBytes(<<S_page>>))>>),
     Email(F_by, S_see_mail, <<Upload(F_c_xlsx, CT_xlsx, EmptyBytes)>>),
     Email(F_PDF, S_page, <<>>),
     Email(F_Attachment, F_by,
           <<Upload(F_c_xlsx, CT_xlsx, XlsxBytes(<<Sheet(N_S1, T_sales)>>)),
             Upload(F_a_csv, CT_csv, B_sales_csv)>>)}

MainInit ==
    /\ collection = <<>>
    /\ seen_hashes = {}
    /\ ingestReq = <<>>
    /\ ingestRes = <<>>
    /\ nMainIngests = 0

Recorded(email, r) ==
    /\ collection' = r.coll
    /\ seen_hashes' = r.seen
    /\ ingestReq' = <<email>>
    /\ ingestRes' = <<[exc |-> r.exc, chunks |-> r.chunks]>>

Ingest ==
    /\ nMainIngests < MaxMainIngests
    /\ \E email \in Emails, embed_ok \in BOOLEAN, add_ok \in BOOLEAN :
          Recorded(email, ingest(collection, seen_hashes, email, embed_ok, add_ok))
    /\ nMainIngests' = nMainIngests + 1
    /\ UNCHANGED <<resetPc, raceVars, lateVars, routerVars, loadVars, tabVars, collVars, askEnv,
                   askRes, askLog, retVars, promptVars, nIngests, nAsks>>

MainNext == Ingest

InitMain ==
    MainInit /\ RouterIdle /\ LoadIdle /\ TabIdle /\ ServiceInit /\ PromptIdle
    /\ ResetIdle /\ RaceIdle /\ LateIdle
SpecMain == InitMain /\ [][MainNext]_vars

----------------------------------------------------------------------------
(* Analysis-question detection: rag/pandasai_integration.py, the same      *)
(* function in backend/ (61-89) and be/ (22-50), and the lists of the      *)
(* routing test backend/test_pandasai_routing.py 15-41                     *)

analysis_keywords == {
    <<"a","n","a","l","y","z","e">>,
    <<"a","n","a","l","y","s","i","s">>,
    <<"i","n","s","i","g","h","t","s">>,
    <<"t","r","e","n","d","s">>,
    <<"p","a","t","t","e","r","n","s">>,
    <<"c","o","m","p","a","r","e">>,
    <<"c","o","m","p","a","r","i","s","o","n">>,
    <<"c","o","r","r","e","l","a","t","e">>,
    <<"c","o","r","r","e","l","a","t","i","o","n">>,
    <<"a","v","e","r","a","g","e">>,
    <<"m","e","a","n">>,
    <<"m","e","d","i","a","n">>,
    <<"s","u","m">>,
    <<"t","o","t","a","l">>,
    <<"c","o","u","n","t">>,
    <<"m","a","x","i","m","u","m">>,
    <<"m","i","n","i","m","u","m">>,
    <<"h","i","g","h","e","s","t">>,
    <<"l","o","w","e","s","t">>,
    <<"g","r","o","u","p"," ","b","y">>,
    <<"b","r","e","a","k","d","o","w","n">>,
    <<"d","i","s","t","r","i","b","u","t","i","o","n">>,
    <<"s","a","l","e","s">>,
    <<"r","e","v","e","n","u","e">>,
    <<"p","r","o","f","i","t">>,
    <<"p","e","r","f","o","r","m","a","n","c","e">>,
    <<"g","r","o","w","t","h">>,
    <<"c","u","s","t","o","m","e","r">>,
    <<"p","r","o","d","u","c","t">>,
    <<"r","e","g","i","o","n">>,
    <<"t","e","r","r","i","t","o","r","y">>,
    <<"t","o","p">>,
    <<"b","o","t","t","o","m">>,
    <<"b","e","s","t">>,
    <<"w","o","r","s","t">>,
    <<"r","a","n","k","i","n","g">>,
    <<"h","o","w"," ","m","a","n","y">>,
    <<"w","h","a","t"," ","i","s"," ","t","h","e">>,
    <<"w","h","i","c","h">>,
    <<"w","h","o"," ","h","a","s"," ","t","h","e">>,
    <<"s","h","o","w"," ","m","e">>,
    <<"l","i","s","t">>,
    <<"f","i","n","d">>,
    <<"c","a","l","c","u","l","a","t","e">>,
    <<"p","e","r","c","e","n","t","a","g","e">>,
    <<"r","a","t","i","o">>,
    <<"r","a","t","e">>,
    <<"p","r","o","p","o","r","t","i","o","n">>,
    <<"i","n","c","r","e","a","s","e">>,
    <<"d","e","c","r","e","a","s","e">>,
    <<"c","h","a","n","g","e">>,
    <<"d","i","f","f","e","r","e","n","c","e">>}

\* any(keyword in question.lower() for keyword in analysis_keywords)
is_analysis_question(q) == \E keyword \in analysis_keywords : Contains(keyword, Lower(q))

\* The test's questions that "should return True"
analysis_questions == {
    <<"H","o","w"," ","m","a","n","y"," ","c","o","u","n","t","r","i","e","s"," ","a","r","e"," ","i","n"," ","A","s","i","a","?">>,
    <<"W","h","a","t"," ","i","s"," ","t","h","e"," ","t","o","t","a","l"," ","s","a","l","e","s"," ","b","y"," ","r","e","g","i","o","n","?">>,
    <<"S","h","o","w"," ","m","e"," ","t","h","e"," ","t","o","p"," ","5"," ","p","e","r","f","o","r","m","i","n","g"," ","p","r","o","d","u","c","t","s">>,
    <<"C","a","l","c","u","l","a","t","e"," ","t","h","e"," ","a","v","e","r","a","g","e"," ","r","e","v","e","n","u","e"," ","p","e","r"," ","c","u","s","t","o","m","e","r">>,
    <<"C","o","m","p","a","r","e"," ","s","a","l","e","s"," ","b","e","t","w","e","e","n"," ","Q","1"," ","a","n","d"," ","Q","2">>,
    <<"W","h","i","c","h"," ","r","e","g","i","o","n"," ","h","a","s"," ","t","h","e"," ","h","i","g","h","e","s","t"," ","p","r","o","f","i","t","?">>,
    <<"A","n","a","l","y","z","e"," ","t","h","e"," ","s","a","l","e","s"," ","t","r","e","n","d","s"," ","o","v","e","r"," ","t","i","m","e">>,
    <<"F","i","n","d"," ","t","h","e"," ","c","o","r","r","e","l","a","t","i","o","n"," ","b","e","t","w","e","e","n"," ","p","r","i","c","e"," ","a","n","d"," ","s","a","l","e","s">>,
    <<"W","h","a","t"," ","p","e","r","c","e","n","t","a","g","e"," ","o","f"," ","s","a","l","e","s"," ","c","o","m","e","s"," ","f","r","o","m"," ","E","u","r","o","p","e","?">>,
    <<"L","i","s","t"," ","a","l","l"," ","c","u","s","t","o","m","e","r","s"," ","w","i","t","h"," ","r","e","v","e","n","u","e"," ",">"," ","1","0","0","0","0">>,
    <<"G","r","o","u","p"," ","s","a","l","e","s"," ","b","y"," ","p","r","o","d","u","c","t"," ","c","a","t","e","g","o","r","y">>,
    <<"S","h","o","w"," ","m","e"," ","i","n","s","i","g","h","t","s"," ","f","r","o","m"," ","t","h","e"," ","d","a","t","a">>}

\* The test's questions that "should return False"
non_analysis_questions == {
    <<"W","h","a","t"," ","i","s"," ","t","h","i","s"," ","f","i","l","e"," ","a","b","o","u","t","?">>,
    <<"C","a","n"," ","y","o","u"," ","o","p","e","n"," ","t","h","i","s"," ","d","o","c","u","m","e","n","t","?">>,
    <<"W","h","a","t"," ","e","m","a","i","l","s"," ","d","i","d"," ","I"," ","r","e","c","e","i","v","e"," ","y","e","s","t","e","r","d","a","y","?">>,
    <<"S","h","o","w"," ","m","e"," ","t","h","e"," ","a","t","t","a","c","h","m","e","n","t"," ","c","o","n","t","e","n","t">>,
    <<"W","h","a","t"," ","d","o","e","s"," ","t","h","i","s"," ","P","D","F"," ","c","o","n","t","a","i","n","?">>,
    <<"H","e","l","l","o",","," ","h","o","w"," ","a","r","e"," ","y","o","u","?">>,
    <<"C","a","n"," ","y","o","u"," ","h","e","l","p"," ","m","e","?">>,
    <<"W","h","a","t"," ","t","i","m","e"," ","i","s"," ","i","t","?">>}

Q_show_me_attachment == <<"S","h","o","w"," ","m","e"," ","t","h","e"," ","a","t","t","a","c","h","m","e","n","t"," ","c","o","n","t","e","n","t">>

KwInit ==
    /\ aqQuestion \in analysis_questions \cup non_analysis_questions \cup Questions
    /\ aqResult = <<>>

IsAnalysisQuestion ==
    /\ aqResult = <<>>
    /\ aqResult' = <<is_analysis_question(aqQuestion)>>
    /\ UNCHANGED <<aqQuestion, cacheWrites, chunkVars, routerVars, loadVars, tabVars,
                   collVars, askEnv, askRes, askLog, retVars, promptVars, resetPc,
                   raceVars, mainVars, nIngests, nAsks>>

KwNext == IsAnalysisQuestion

InitKw ==
    /\ KwInit /\ KeysIdle /\ ChunkIdle
    /\ RouterIdle /\ LoadIdle /\ TabIdle /\ ServiceInit /\ PromptIdle
    /\ ResetIdle /\ RaceIdle /\ MainIdle
SpecKw == InitKw /\ [][KwNext]_vars

\* C26 as stated: is_analysis_question returns True for every question of
\* the routing test's analysis list and False for every question of its
\* non-analysis list, 'Show me the attachment content' among them.
Orig_C26_RoutingTestLists ==
    aqResult # <<>> =>
        /\ aqQuestion \in analysis_questions => aqResult[1]
        /\ aqQuestion \in non_analysis_questions => ~aqResult[1]

----------------------------------------------------------------------------
(* The byte cache on its own: be/rag/data_cache.py 14-31, a sequence of    *)
(* cache_blob_data calls over locators and filenames, some with a colon    *)

MaxWrites == 2

U_ab == <<"u","/","a",":","b">>
F_c_csv == <<"c",".","c","s","v">>
F_b_c_csv == <<"b",":","c",".","c","s","v">>
KeyUrls == {U_a, U_ab}
KeyFilenames == {F_a_csv, F_c_csv, F_b_c_csv}
KeyContents == {B_sales_csv, B_book}

Write(blob_uri, filename, data) == [blob_uri |-> blob_uri, filename |-> filename, data |-> data]

KeysInit == cache = EmptyCache /\ cacheWrites = <<>>

CacheBlobData ==
    /\ Len(cacheWrites) < MaxWrites
    /\ \E u \in KeyUrls, f \in KeyFilenames, d \in KeyContents :
          /\ cache' = cache_blob_data(cache, u, f, d)
          /\ cacheWrites' = Append(cacheWrites, Write(u, f, d))
    /\ UNCHANGED <<loadSpecs, loadRes, fetchLog, nLoads, kwVars, chunkVars, routerVars,
                   tabVars, collVars, askEnv, askRes, askLog, retVars, promptVars,
                   resetPc, raceVars, mainVars, nIngests, nAsks>>

KeysNext == CacheBlobData

InitKeys ==
    /\ KeysInit /\ loadSpecs = <<>> /\ loadRes = NoLoad /\ fetchLog = <<>> /\ nLoads = 0
    /\ KwIdle /\ ChunkIdle
    /\ RouterIdle /\ TabIdle /\ ServiceInit /\ PromptIdle
    /\ ResetIdle /\ RaceIdle /\ MainIdle
SpecKeys == InitKeys /\ [][KeysNext]_vars

\* The write at position i is the last one for its (locator, filename) pair
LastForPair(i) ==
    \A j \in (i + 1)..Len(cacheWrites) :
        \/ cacheWrites[j].blob_uri # cacheWrites[i].blob_uri
        \/ cacheWrites[j].filename # cacheWrites[i].filename

\* C28 as stated: two different (locator, filename) pairs never share a
\* byte-cache entry: after cache_blob_data(u1, f1, d1) and
\* cache_blob_data(u2, f2, d2) with (u1, f1) # (u2, f2),
\* get_cached_blob_data(u1, f1) still returns d1.
Orig_C28_PairsNeverShareEntry ==
    \A i \in 1..Len(cacheWrites) :
        LastForPair(i) =>
            get_cached_blob_data(cache, cacheWrites[i].blob_uri, cacheWrites[i].filename)
                = <<cacheWrites[i].data>>

----------------------------------------------------------------------------
(* chunk_text pass by pass: backend/rag/parsers.py 10-20, the same loop as *)
(* backend/main.py 63-76                                                   *)

MaxTextWords == 3
MaxMaxWords == 3
MaxOverlap == 2
\* Memory holds at most MaxPasses chunks, more than a text of MaxTextWords
\* words needs when every pass moves start forward; chunks.append beyond it
\* raises MemoryError
MaxPasses == 5

ChunkWordPool == {<<"a">>, <<"b","c">>}
WordLists == UNION {[1..n -> ChunkWordPool] : n \in 0..MaxTextWords}

\* The texts: words joined by single spaces, bare or wrapped in white space
ChunkTexts ==
    {Join(ws) : ws \in WordLists} \cup {<<" ">> \o Join(ws) \o <<"\n">> : ws \in WordLists}

\* words = text.split(); if not words: return []; chunks = []; start = 0
ChunkInit ==
    /\ \E text \in ChunkTexts : ckWords = Split(text)
    /\ ckMaxWords \in 1..MaxMaxWords
    /\ ckOverlap \in 0..MaxOverlap
    /\ ckStart = 0
    /\ ckChunks = <<>>
    /\ cpc = IF ckWords = <<>> THEN "done" ELSE "loop"

\* One pass of the while loop whose slice ends at end
PassTo(end) ==
    /\ ckChunks' = Append(ckChunks, Join(SubSeq(ckWords, ckStart + 1, end)))
    /\ IF end = Len(ckWords)
       THEN cpc' = "done" /\ ckStart' = ckStart
       ELSE cpc' = "loop" /\ ckStart' = Max2(0, end - ckOverlap)

LoopPass ==
    /\ cpc = "loop"
    /\ ckStart < Len(ckWords)
    /\ Len(ckChunks) < MaxPasses
    /\ PassTo(Min2(Len(ckWords), ckStart + ckMaxWords))
    /\ UNCHANGED <<ckWords, ckMaxWords, ckOverlap, kwVars, cacheWrites, routerVars,
                   loadVars, tabVars, collVars, askEnv, askRes, askLog, retVars,
                   promptVars, resetPc, raceVars, mainVars, nIngests, nAsks>>

\* chunks.append(...) when the list cannot grow any more: the call ends with
\* MemoryError instead of returning
AppendRaises ==
    /\ cpc = "loop"
    /\ ckStart < Len(ckWords)
    /\ Len(ckChunks) = MaxPasses
    /\ cpc' = "raised"
    /\ UNCHANGED <<ckWords, ckMaxWords, ckOverlap, ckStart, ckChunks, kwVars, cacheWrites,
                   routerVars, loadVars, tabVars, collVars, askEnv, askRes, askLog,
                   retVars, promptVars, resetPc, raceVars, mainVars, nIngests, nAsks>>

ChunkNext == LoopPass \/ AppendRaises

InitChunk ==
    /\ ChunkInit /\ KwIdle /\ KeysIdle
    /\ RouterIdle /\ LoadIdle /\ TabIdle /\ ServiceInit /\ PromptIdle
    /\ ResetIdle /\ RaceIdle /\ MainIdle
SpecChunk == InitChunk /\ [][ChunkNext]_vars

\* The loop is run to its end: a pass that can be taken is taken
SpecChunkFair == SpecChunk /\ WF_vars(LoopPass) /\ WF_vars(AppendRaises)

\* What chunk_text promises of the chunks it returns
ChunksCoverWords ==
    /\ \A i \in 1..Len(ckWords) :
          \E c \in 1..Len(ckChunks) : \E j \in 1..Len(Split(ckChunks[c])) :
             Split(ckChunks[c])[j] = ckWords[i]
    /\ \A c \in 1..Len(ckChunks) :
          /\ ckChunks[c] # <<>>
          /\ Len(Split(ckChunks[c])) <= ckMaxWords

\* C30 as stated: chunk_text terminates for every text and every
\* max_words >= 1 and overlap >= 0; and when it returns, every word of the
\* text occurs in at least one chunk, no chunk is empty and no chunk has
\* more than max_words words.
Orig_C30_ChunkTextTerminates ==
    /\ <>(cpc = "done")
    /\ [](cpc = "done" => ChunksCoverWords)

----------------------------------------------------------------------------
(* Claims about the dispatch of /ask                                       *)

\* The collection queries among the collaborator calls of an /ask
Queries(log) ==
    SelectSeq(log, LAMBDA e : e \in {"query_mail", "query_semantic", "query_tabular"})

\* The query that stands for the collection of a route
QueryOf(route) ==
    IF route = MAIL_BODY_SEMANTIC THEN "query_mail"
    ELSE IF route = ATTACHMENT_SEMANTIC THEN "query_semantic"
    ELSE IF route = ATTACHMENT_TABULAR THEN "query_tabular"
    ELSE "none"

\* C27: in /ask the route returned by the single classify_intent call
\* determines the only collection queried: mail_body_semantic queries only
\* MAIL_BODIES, attachment_semantic only ATTACHMENTS_SEMANTIC,
\* attachment_tabular only the tabular index, with at most 3 entries asked
\* for; the unknown route queries no collection, embeds nothing and calls no
\* model; and the route field of the response equals the classified route.
Thm_C27_RouteDeterminesCollection ==
    nAsks > 0 =>
        /\ askLog[1] = "classify"
        /\ Len(SelectSeq(askLog, LAMBDA e : e = "classify")) = 1
        /\ Len(Queries(askLog)) <= 1
        /\ \A i \in 1..Len(Queries(askLog)) : Queries(askLog)[i] = QueryOf(routed.route)
        /\ QueryOf(routed.route) = "none" => askLog = <<"classify">>
        /\ askRes.kind = "response" => askRes.route = routed.route
        /\ routed.route = ATTACHMENT_TABULAR => Len(askRes.sources) <= 3

\* C27 witness: a tabular question with k = 6 over an index of four or more
\* entries: only the tabular index is queried and three entries come back
Wit_C27_TabularCappedAtThree ==
    /\ nAsks > 0
    /\ routed.route = ATTACHMENT_TABULAR
    /\ Len(ATTACHMENTS_TABULAR_IDX) >= 4
    /\ Queries(askLog) = <<"query_tabular">>
    /\ askRes.kind = "response"
    /\ askRes.route = ATTACHMENT_TABULAR
    /\ Len(askRes.sources) = 3

----------------------------------------------------------------------------
(* Claims about the single-collection service                              *)

\* The sheets of a workbook that have any row
NonEmptySheets(data) ==
    Len(SelectSeq(data.sheets, LAMBDA sh : sh.table.cols # <<>>))

\* The last /ingest had no body and one workbook attachment, and stored it
\* in a collection that had nothing of it
StoredOneWorkbook ==
    /\ ingestReq # <<>>
    /\ ingestRes # <<>>
    /\ ~ingestRes[1].exc
    /\ Strip(ingestReq[1].bodyText) = <<>>
    /\ Len(ingestReq[1].attachments) = 1
    /\ ingestReq[1].attachments[1].content.fmt = "xlsx"
    /\ nMainIngests = 1

\* C23: ingesting a spreadsheet never embeds row-level data: the number of
\* chunks added for a spreadsheet attachment is one per non-empty sheet,
\* independent of the number of data rows, and no stored chunk's text is an
\* individual data row.
Orig_C23_NoRowLevelChunks ==
    /\ StoredOneWorkbook
       => ingestRes[1].chunks = NonEmptySheets(ingestReq[1].attachments[1].content)
    /\ \A i \in 1..Len(collection) : collection[i].doc.kind # "row"

\* C29: after any sequence of /ingest calls, including calls in which the
\* embedding call or the collection insert fails, every chunk whose content
\* hash is in seen_hashes is stored in the collection.
Orig_C29_SeenImpliesStored ==
    \A h \in seen_hashes : \E i \in 1..Len(collection) : collection[i].doc = h

----------------------------------------------------------------------------
(* Claims about the cache under concurrency                                *)

\* The byte strings the threads have written so far
Written == {raceData[t] : t \in {u \in Threads : racePc[u] = "stored"}}

\* C22: when two loads (or a load and an attachment ingestion) of the same
\* locator and filename run concurrently and both populate the byte cache,
\* every interleaving leaves exactly one cache entry for that key whose
\* value is the complete byte string written by one of them, the last one,
\* and each concurrent reader obtains either a miss or a complete byte
\* string.
Thm_C22_LastWriteWins ==
    /\ (\A t \in Threads : racePc[t] = "stored")
       => /\ DOMAIN cache = {RaceKey}
          /\ cache[RaceKey] \in Written
          /\ raceLast = <<cache[RaceKey]>>
    /\ \A t \in Threads :
          \/ raceRead[t] = <<>>
          \/ \E content \in RaceContents : raceRead[t] = <<content>>

\* C22 witness: a load and an ingestion both missed or skipped the cache,
\* downloaded different bytes and both stored them
Wit_C22_BothStored ==
    /\ raceKind = (1 :> "load" @@ 2 :> "ingest")
    /\ \A t \in Threads : racePc[t] = "stored"
    /\ raceRead[1] = <<>>
    /\ raceData[1] # raceData[2]
    /\ cache[RaceKey] = raceData[1]

----------------------------------------------------------------------------
(* Claims about the vector store                                           *)

\* C21: after reset_all returns, each of the three collections contains no
\* entries, whatever number of entries it held before.
Orig_C21_ResetEmptiesAll ==
    resetPc = "done"
    => /\ MAIL_BODIES = <<>>
       /\ ATTACHMENTS_SEMANTIC = <<>>
       /\ ATTACHMENTS_TABULAR_IDX = <<>>

----------------------------------------------------------------------------
(* Claims about the prompt builder                                         *)

\* The position of the first c in s, Len(s) + 1 when there is none
RECURSIVE IndexOf(_, _)
IndexOf(s, c) ==
    IF s = <<>> \/ Head(s) = c THEN 1 ELSE 1 + IndexOf(Tail(s), c)

\* The lines of a string
RECURSIVE LinesOf(_)
LinesOf(s) ==
    IF IndexOf(s, "\n") > Len(s) THEN <<s>>
    ELSE <<SubSeq(s, 1, IndexOf(s, "\n") - 1)>>
         \o LinesOf(SubSeq(s, IndexOf(s, "\n") + 1, Len(s)))

\* The positions of the lines that open a context block: those that start
\* with a bracket
BlockLines(lines) ==
    SelectSeq([j \in 1..Len(lines) |-> j],
              LAMBDA j : lines[j] # <<>> /\ lines[j][1] = "[")

\* What a block's first line has between its brackets, and its annotation:
\* the parenthesis that ends the line
NumberOf(line) == SubSeq(line, 2, IndexOf(line, "]") - 1)
AnnotationOf(line) == SubSeq(line, IndexOf(line, "("), Len(line))

\* The annotation is the page of m, or the sheet of m, or there is none;
\* there is none when m has neither
TracesTo(annotation, m) ==
    /\ \/ annotation = <<>>
       \/ m.page # 0 /\ annotation = <<"(","p","a","g","e"," ">> \o StrNat(m.page) \o <<")">>
       \/ m.sheet # <<>> /\ annotation = <<"(","s","h","e","e","t"," ">> \o m.sheet \o <<")">>
    /\ (m.page = 0 /\ m.sheet = <<>>) => annotation = <<>>

BlocksTrace(lines, at, contexts) ==
    /\ Len(at) = Len(contexts)
    /\ \A i \in 1..Len(at) :
          /\ NumberOf(lines[at[i]]) = StrNat(i)
          /\ TracesTo(AnnotationOf(lines[at[i]]), contexts[i].meta)
          /\ at[i] < Len(lines)
          /\ lines[at[i] + 1] = contexts[i].text.text

\* C20: in the prompt built by _build_prompt, every '(page N)' or
\* '(sheet S)' annotation of a context block equals the page or sheet value
\* of that same context's metadata; a context whose metadata has neither
\* gets no location annotation, and blocks are numbered from 1 in context
\* order.
Thm_C20_AnnotationsTraceToMetadata ==
    ppc = "done"
    => BlocksTrace(LinesOf(prompt), BlockLines(LinesOf(prompt)), promptCtx)

\* C20 witness: a prompt of two blocks, the first of a mail without page or
\* sheet, the second of page 12 of a PDF
Wit_C20_MailThenPage ==
    /\ ppc = "done"
    /\ promptCtx = <<Context(F_hi, <<>>, F_Sum, 0, <<>>),
                     Context(F_by, F_p_pdf, <<>>, 12, <<>>)>>
    /\ Contains(<<"[","1","]"," ","S","u","m"," ","\n","h","i","\n">>, prompt)
    /\ Contains(<<"[","2","]"," ","p",".","p","d","f"," ","(","p","a","g","e"," ","1","2",")","\n","b","y","\n">>, prompt)

----------------------------------------------------------------------------
(* Claims about the retriever                                              *)

\* The two calls were made with the same question, k and filter, by an
\* embedding function that gave the question the same vector both times, on
\* the same state of the collection
SameCallTwice ==
    /\ retFirst.made /\ retSecond.made
    /\ retFirst.q = retSecond.q
    /\ retFirst.q_emb = retSecond.q_emb
    /\ retFirst.k = retSecond.k
    /\ retFirst.where = retSecond.where
    /\ retFirst.state = retSecond.state

----------------------------------------------------------------------------
(* Claims about the tabular loader and the byte cache                      *)

\* The tables of the sheets of a workbook that carry a given name
SheetsNamed(content, name) ==
    {content.sheets[k].table :
        k \in {j \in 1..Len(content.sheets) : content.sheets[j].name = name}}

\* What a spec yields when its locator is fetched and parsed on its own,
\* without any cache: <<>> when it has no locator or the fetch or the parse
\* fails, else the one labelled dataset
LoadsAlone(spec, i) ==
    LET r == HttpGet(spec.blob_uri)
        fname == Lower(spec.filename)
        csv == EndsWith(fname, EXT_csv)
        xl == ~csv /\ (EndsWith(fname, EXT_xlsx) \/ EndsWith(fname, EXT_xlsm))
        fetched == spec.blob_uri # <<>> /\ r.status = "ok"
    IN  IF fetched /\ csv /\ r.content.fmt = "csv"
        THEN <<Loaded(LabelOf(spec, i), r.content.sheets[1].table)>>
        ELSE IF fetched /\ xl /\ r.content.fmt = "xlsx" /\ spec.sheet = <<>>
        THEN <<Loaded(LabelOf(spec, i), r.content.sheets[1].table)>>
        ELSE IF fetched /\ xl /\ r.content.fmt = "xlsx"
                /\ SheetsNamed(r.content, spec.sheet) # {}
        THEN <<Loaded(LabelOf(spec, i) \o <<":">> \o spec.sheet,
                      CHOOSE t \in SheetsNamed(r.content, spec.sheet) : TRUE)>>
        ELSE <<>>

RECURSIVE LoadsAloneFrom(_, _)
LoadsAloneFrom(specs, i) ==
    IF i > Len(specs) THEN <<>>
    ELSE LoadsAlone(specs[i], i) \o LoadsAloneFrom(specs, i + 1)

RECURSIVE IsSubseq(_, _)
IsSubseq(a, b) ==
    IF a = <<>> THEN TRUE
    ELSE IF b = <<>> THEN FALSE
    ELSE IF Head(a) = Head(b) THEN IsSubseq(Tail(a), Tail(b))
    ELSE IsSubseq(a, Tail(b))

IsCsv(spec) == EndsWith(Lower(spec.filename), EXT_csv)
IsWorkbook(spec) ==
    EndsWith(Lower(spec.filename), EXT_xlsx) \/ EndsWith(Lower(spec.filename), EXT_xlsm)

\* The specs with one of the three extensions, in order
Supported(specs) == SelectSeq(specs, LAMBDA sp : IsCsv(sp) \/ IsWorkbook(sp))

\* 'filename:sheet' for a spec that names a sheet, else 'filename'
SheetLabels(specs) ==
    [i \in 1..Len(specs) |->
        IF specs[i].sheet # <<>> THEN specs[i].filename \o <<":">> \o specs[i].sheet
        ELSE specs[i].filename]

\* 'filename:sheet' for a workbook spec that names a sheet, else 'filename'
WorkbookSheetLabels(specs) ==
    [i \in 1..Len(specs) |->
        IF IsWorkbook(specs[i]) /\ specs[i].sheet # <<>>
        THEN specs[i].filename \o <<":">> \o specs[i].sheet
        ELSE specs[i].filename]

\* C24 as stated: every dataset returned by load_dataframes for a spec that
\* names a sheet is labelled 'filename:sheet', every dataset for a spec that
\* names no sheet is labelled 'filename', and a spec whose extension is not
\* .csv, .xlsx or .xlsm in any letter case yields no dataset: the labels
\* returned are, in order, labels of the supported specs.
Orig_C24_SheetSpecsLabelled ==
    nLoads > 0 =>
        IsSubseq(Labels(loadRes.out), SheetLabels(Supported(loadSpecs)))

\* C24 amended: the label is 'filename:sheet' only for a workbook spec that
\* names a sheet; the dataset of a CSV spec is labelled 'filename' whether
\* or not the spec names a sheet.
Thm_C24_WorkbookSheetsLabelled ==
    nLoads > 0 =>
        IsSubseq(Labels(loadRes.out), WorkbookSheetLabels(Supported(loadSpecs)))

\* C24 witness: a CSV spec that names a sheet, a workbook spec that names a
\* sheet and a text file, loaded as 'a.csv' and 'c.xlsx:S1'
Wit_C24_CsvAndSheet ==
    /\ nLoads > 0
    /\ loadSpecs = <<SP_AS, SP_D, SP_C>>
    /\ Labels(loadRes.out) = <<F_a_csv, F_c_xlsx \o <<":">> \o N_S1>>

\* A spec of the earlier loader whose fetch and parse both succeed
BackendSucceeds(spec) ==
    /\ spec.blob_uri # <<>>
    /\ HttpGet(spec.blob_uri).status = "ok"
    /\ \/ IsCsv(spec) /\ ~ReadCsv(HttpGet(spec.blob_uri).content).exc
       \/ ~IsCsv(spec) /\ IsWorkbook(spec)
          /\ ~ReadExcel(HttpGet(spec.blob_uri).content, spec.sheet).exc

\* C25 as stated: load_dataframes of backend/rag/tabular_agent.py does not
\* raise for a failed fetch, returns one dataset per spec whose fetch and
\* parse succeed (a failing spec is dropped), and no returned dataset is a
\* placeholder standing for a failed entry.
Orig_C25_BackendDropsFailures ==
    nLoads > 0 =>
        /\ ~loadRes.exc
        /\ Len(loadRes.out) = Len(SelectSeq(loadSpecs, BackendSucceeds))
        /\ \A i \in 1..Len(loadRes.out) : loadRes.out[i].df # ErrorFrame

\* C9 as stated: in every load, a spec for whose (locator, filename) bytes
\* are stored in the cache issues no fetch; a spec with a locator and no
\* stored bytes is fetched, and the fetched bytes are stored under its key.
Orig_C9_CacheFirst ==
    [][ nLoads' = nLoads + 1 =>
          \A i \in 1..Len(loadSpecs) :
             LET sp == loadSpecs[i]
                 key == _cache_key(sp.blob_uri, LabelOf(sp, i))
                 f == Fetch(sp.blob_uri, LabelOf(sp, i))
                 issued == \E j \in 1..Len(fetchLog') : fetchLog'[j] = f
             IN  sp.blob_uri # <<>> =>
                    /\ key \in DOMAIN cache => ~issued
                    /\ key \notin DOMAIN cache =>
                          /\ issued
                          /\ HttpGet(sp.blob_uri).status = "ok" =>
                                (key \in DOMAIN cache'
                                 /\ cache'[key] = HttpGet(sp.blob_uri).content)
      ]_vars

----------------------------------------------------------------------------
(* Claims about the tabular reasoner                                       *)

\* C5: when the Tier A model call raises, answer_with_pandasai returns the
\* result of the tabular agent's column-family heuristic
\* (_basic_tabular_analysis), not any other fallback.
Orig_C5_ModelFailureUsesTierB ==
    (/\ tpc = "done"
     /\ tabTables # <<>>
     /\ TierAInvoked(tabEnv)
     /\ tabEnv.model.kind = "raises")
    => tabRes = _basic_tabular_analysis(tabQ, tabTables)

\* The answer names the table and says that it is an empty sheet
SaysEmpty(answer, label) ==
    \E i \in 1..Len(answer) :
        /\ answer[i].label = label
        /\ \E j \in 1..Len(answer[i].parts) : answer[i].parts[j].kind = "Empty sheet"

\* C7: under the Tier B heuristic, a table with zero data rows yields an
\* answer text that states explicitly that the sheet is empty; no aggregate
\* branch runs on it and no exception escapes.
Orig_C7_EmptyTableReported ==
    (tpc = "done" /\ tabRes.analysis_type = "enhanced_basic")
    => \A i \in 1..Len(tabTables) :
          Len(tabTables[i].df.rows) = 0 => SaysEmpty(tabRes.answer, tabTables[i].label)

\* The texts a branch function returns from its own except clause
BranchErrors ==
    {"Error analyzing Asia countries", "Error in regional analysis",
     "Error in count analysis", "Error in sales analysis"}

\* C12: under Tier B a branch that throws is skipped: no paragraph of the
\* answer comes from a branch that threw, every table with rows still gets
\* a paragraph from another branch or the overview, and the result lists
\* every input table in tables_used.
Orig_C12_ThrowingBranchSkipped ==
    (tpc = "done" /\ tabRes.analysis_type = "enhanced_basic")
    => /\ tabRes.tables_used = Labels(tabTables)
       /\ \A i \in 1..Len(tabRes.answer) :
             \A j \in 1..Len(tabRes.answer[i].parts) :
                tabRes.answer[i].parts[j].kind \notin BranchErrors

\* The question asks how many countries are in Asia
AsksAsiaCount(q) ==
    /\ AnyIn({<<"a","s","i","a">>, <<"a","s","i","a","n">>}, Lower(q))
    /\ AnyIn({<<"c","o","u","n","t","r","i","e","s">>, <<"c","o","u","n","t","r","y">>, <<"c","o","u","n","t">>, <<"n","u","m","b","e","r">>, <<"h","o","w"," ","m","a","n","y">>}, Lower(q))

\* The first column of each family, <<>> when the table has none
RegionFamily(df) == FirstN(ColsWith(df, {<<"r","e","g","i","o","n">>, <<"c","o","n","t","i","n","e","n","t">>, <<"a","r","e","a">>, <<"z","o","n","e">>}), 1)
CountryFamily(df) == FirstN(ColsWith(df, {<<"c","o","u","n","t","r","y">>, <<"n","a","t","i","o","n">>, <<"s","t","a","t","e">>}), 1)

\* A table with rows, a region-family and a country-family column, both
\* holding text
HasRegionAndCountry(df) ==
    /\ df.rows # <<>>
    /\ RegionFamily(df) # <<>>
    /\ CountryFamily(df) # <<>>
    /\ AllStr(Cells(df, RegionFamily(df)[1]))
    /\ AllStr(Cells(df, CountryFamily(df)[1]))

\* The country values of the rows whose region value contains 'asia' in any
\* letter case
AsianCountries(df) ==
    {df.rows[r][ColIdx(df, CountryFamily(df)[1])].s :
        r \in {k \in 1..Len(df.rows) :
                  Contains(W_asia, Lower(df.rows[k][ColIdx(df, RegionFamily(df)[1])].s))}}

\* The paragraphs written for the table with the given label
PartsFor(answer, label) ==
    UNION {{answer[i].parts[j] : j \in 1..Len(answer[i].parts)} :
              i \in {k \in 1..Len(answer) : answer[k].label = label}}

NoRepeats(xs) == \A i, j \in 1..Len(xs) : xs[i] = xs[j] => i = j

\* ', '.join(country_list[:10])
MaxListed == 10

\* A paragraph that reports the number of the countries and lists them, the
\* list cut after the first cap of them
ReportsCountries(part, countries, cap) ==
    /\ part.kind = "Asia Region Analysis"
    /\ part.n = Cardinality(countries)
    /\ Len(part.strs) = Min2(Cardinality(countries), cap)
    /\ NoRepeats(part.strs)
    /\ \A j \in 1..Len(part.strs) : part.strs[j] \in countries

\* The Tier B answers to the Asia question over tables with both columns
\* and at least one Asian row
AsiaAnswered(cap) ==
    (tpc = "done" /\ tabRes.analysis_type = "enhanced_basic" /\ AsksAsiaCount(tabQ))
    => \A i \in 1..Len(tabTables) :
          (HasRegionAndCountry(tabTables[i].df) /\ AsianCountries(tabTables[i].df) # {})
          => \E part \in PartsFor(tabRes.answer, tabTables[i].label) :
                ReportsCountries(part, AsianCountries(tabTables[i].df), cap)

\* C14 as stated: under Tier B the answer to the Asia question reports the
\* number of distinct countries among the rows whose region matches 'asia'
\* case-insensitively, and lists all of those countries.
Orig_C14_AsiaCountListsAll == AsiaAnswered(11)

\* C14 amended: it reports that number and lists those countries in the
\* order of their first row, at most the first ten of them.
Thm_C14_AsiaCountListsTen == AsiaAnswered(MaxListed)

\* C14 witness: rows (Asia,India),(Asia,China),(Europe,Germany) answered
\* with exactly 2, India and China
Wit_C14_TwoAsianCountries ==
    /\ tpc = "done"
    /\ tabQ = Q_asia
    /\ tabTables = <<Loaded(L_asia, T_asia)>>
    /\ tabRes.answer =
          <<Entry(L_asia, <<Part("Asia Region Analysis", 2, 0, <<V_India, V_China>>,
                                 <<>>, <<>>)>>)>>

\* The question asks for the total sales by region
AsksSalesByRegion(q) ==
    /\ AnyIn({<<"s","a","l","e","s">>, <<"t","o","t","a","l">>}, Lower(q))
    /\ AnyIn({<<"b","y"," ","r","e","g","i","o","n">>}, Lower(q))
    /\ ~AsksAsiaCount(q)

SalesFamily(df) == FirstN(ColsWith(df, {<<"s","a","l","e","s">>, <<"r","e","v","e","n","u","e">>, <<"a","m","o","u","n","t">>, <<"v","a","l","u","e">>}), 1)

\* A table with rows, a region-family column holding text and a
\* sales-family column holding numbers
HasRegionAndSales(df) ==
    /\ df.rows # <<>>
    /\ RegionFamily(df) # <<>>
    /\ SalesFamily(df) # <<>>
    /\ AllStr(Cells(df, RegionFamily(df)[1]))
    /\ IsNumericCol(df, SalesFamily(df)[1])

\* The region values of the table
RegionsOf(df) ==
    {df.rows[r][ColIdx(df, RegionFamily(df)[1])].s : r \in 1..Len(df.rows)}

\* The sum of the sales column over the rows 1..k that belong to a region
RECURSIVE RegionSum(_, _, _)
RegionSum(df, region, k) ==
    IF k = 0 THEN 0
    ELSE (IF df.rows[k][ColIdx(df, RegionFamily(df)[1])].s = region
          THEN df.rows[k][ColIdx(df, SalesFamily(df)[1])].n
          ELSE 0)
         + RegionSum(df, region, k - 1)

\* Each pair is a region of the table with the sum of its sales, no region
\* twice
GivesRegionSums(pairs, df) ==
    /\ NoRepeats(Keys(pairs))
    /\ \A j \in 1..Len(pairs) :
          /\ pairs[j].k \in RegionsOf(df)
          /\ pairs[j].v = RegionSum(df, pairs[j].k, Len(df.rows))

GivesEveryRegion(pairs, df) == {pairs[j].k : j \in 1..Len(pairs)} = RegionsOf(df)

DescendingSums(pairs) == \A j, k \in 1..Len(pairs) : j < k => pairs[j].v >= pairs[k].v

\* dict(regional_sales.head(3))
MaxRegions == 3

\* The pairs are the cap largest sums, largest first
GivesLargestSums(pairs, df, cap) ==
    /\ GivesRegionSums(pairs, df)
    /\ DescendingSums(pairs)
    /\ Len(pairs) = Min2(Cardinality(RegionsOf(df)), cap)
    /\ \A region \in RegionsOf(df) :
          (\A j \in 1..Len(pairs) : pairs[j].k # region)
          => \A j \in 1..Len(pairs) : RegionSum(df, region, Len(df.rows)) <= pairs[j].v

\* The tables that the sales-by-region question is about, when Tier B answered
SalesByRegionTables ==
    IF tpc = "done" /\ tabRes.analysis_type = "enhanced_basic" /\ AsksSalesByRegion(tabQ)
    THEN {i \in 1..Len(tabTables) : HasRegionAndSales(tabTables[i].df)}
    ELSE {}

\* C15 as stated: under Tier B the answer to a 'total sales by region'
\* question renders an aggregate that gives for each region the sum of its
\* sales, ordered by descending sum.
Orig_C15_EveryRegionDescending ==
    \A i \in SalesByRegionTables :
        \E part \in PartsFor(tabRes.answer, tabTables[i].label) :
            \E pairs \in {part.pairs, part.pairs2} :
                /\ GivesRegionSums(pairs, tabTables[i].df)
                /\ GivesEveryRegion(pairs, tabTables[i].df)
                /\ DescendingSums(pairs)

\* C15 amended: the financial paragraph gives the three largest sums by
\* region, largest first, and the regional paragraph gives the sum of every
\* region, in the order of the region names.
Thm_C15_TopThreeDescending ==
    \A i \in SalesByRegionTables :
        /\ \E part \in PartsFor(tabRes.answer, tabTables[i].label) :
              /\ part.kind = "Financial Analysis"
              /\ GivesLargestSums(part.pairs, tabTables[i].df, MaxRegions)
        /\ \E part \in PartsFor(tabRes.answer, tabTables[i].label) :
              /\ part.kind = "Regional Analysis"
              /\ GivesRegionSums(part.pairs2, tabTables[i].df)
              /\ GivesEveryRegion(part.pairs2, tabTables[i].df)
              /\ \A j, k \in 1..Len(part.pairs2) :
                    j < k => StrLess(part.pairs2[j].k, part.pairs2[k].k)

\* C15 witness: rows (North,100),(South,200),(North,50) answered with
\* South=200 first, then North=150
Wit_C15_SouthFirst ==
    /\ tpc = "done"
    /\ tabQ = Q_by_region
    /\ tabTables = <<Loaded(L_sales, T_sales)>>
    /\ \E part \in PartsFor(tabRes.answer, L_sales) :
          /\ part.kind = "Financial Analysis"
          /\ part.pairs = <<Pair(V_South, 200), Pair(V_North, 150)>>

\* C16: when the loader produced no tables, answer_with_pandasai returns the
\* fixed explanatory answer with empty tables_used and empty previews, and
\* invokes neither the Tier A analysis nor the Tier B heuristic.
Thm_C16_NoTablesNoTier ==
    (tpc = "done" /\ tabTables = <<>>)
    => /\ tabRes = NoTablesAnswer
       /\ tabRes.tables_used = <<>>
       /\ tabRes.previews = <<>>
       /\ tabCalls = <<>>
       /\ worker = "none"

\* C16 witness: a call without tables has returned, in an environment where
\* Tier A would have been available
Wit_C16_NoTables ==
    /\ tpc = "done"
    /\ tabTables = <<>>
    /\ tabEnv.importable /\ tabEnv.api_key
    /\ tabRes.analysis_type = "no_data_timeout"

\* C13: for every non-empty sequence of tables the result holds exactly one
\* preview per table, in input order, each showing the first 5 rows of its
\* table, whichever tier produced the answer.
Orig_C13_PreviewsFirstFive ==
    (tpc = "done" /\ tabTables # <<>>) => tabRes.previews = Previews(tabTables, 5)

\* C11: once the 60 s timeout of the Tier A call has expired,
\* answer_with_pandasai goes on to the Tier B fallback and returns, whether
\* or not the Tier A call ever completes.
Orig_C11_TimeoutLeadsToReturn == (tpc = "shutdown") ~> (tpc = "done")

----------------------------------------------------------------------------
(* Claims about the service: /ask and ingestion                            *)

\* C4: /ask never propagates an exception to its caller: whatever route was
\* chosen and whichever collaborator failed, the request ends with a
\* response object that carries an answer and the route.
Orig_C4_AskNeverRaises ==
    nAsks > 0 =>
        /\ askRes.kind = "response"
        /\ askRes.route \in Route

\* The generative model answered, with an empty text
EmptyOutput == [kind |-> "text", text |-> <<>>]

\* Whether a call is in the log of the calls a request made
\* The collection a route queries, its entry in the log, and the answer the
\* route gives without hits
QueriedBy(route) ==
    IF route = MAIL_BODY_SEMANTIC THEN MAIL_BODIES
    ELSE IF route = ATTACHMENT_SEMANTIC THEN ATTACHMENTS_SEMANTIC
    ELSE ATTACHMENTS_TABULAR_IDX

QueryName(route) ==
    IF route = MAIL_BODY_SEMANTIC THEN "query_mail"
    ELSE IF route = ATTACHMENT_SEMANTIC THEN "query_semantic"
    ELSE "query_tabular"

NoHitsAnswer(route) ==
    IF route = MAIL_BODY_SEMANTIC
    THEN Plain(Note("I don't know based on the available mail bodies."))
    ELSE IF route = ATTACHMENT_SEMANTIC
    THEN Plain(Note("I don't know based on the available attachments."))
    ELSE Plain(Note("No relevant tabular attachments found."))

\* The last /ask took one of the three routes and its similarity query
\* returned no hits: the query ran on a collection that is still empty
\* (collections never shrink)
ZeroHits ==
    /\ askRes.kind = "response"
    /\ askRes.route \in {MAIL_BODY_SEMANTIC, ATTACHMENT_SEMANTIC, ATTACHMENT_TABULAR}
    /\ askEnv.retrieval = "ok"
    /\ QueriedBy(askRes.route) = <<>>

QueriedEmpty ==
    /\ askRes.kind # "none"
    /\ askRes.route \in {MAIL_BODY_SEMANTIC, ATTACHMENT_SEMANTIC, ATTACHMENT_TABULAR}
    /\ QueriedBy(askRes.route) = <<>>

\* C18: topk_from_collection on an empty collection returns an empty
\* sequence and does not raise.
Orig_C18_EmptyCollectionNoRaise ==
    QueriedEmpty
    => \A k \in AskKs :
          topk_from_collection(QueriedBy(askRes.route), k, askEnv.retrieval)
              = [exc |-> FALSE, out |-> <<>>]

Called(name) == \E i \in 1..Len(askLog) : askLog[i] = name

\* C6: an empty output of the generative model is never returned as a
\* successful answer: when answer synthesis on the mail or the attachment
\* route received an empty output, the response is neither that empty text
\* nor the agent's success result, and when Tier A received one, the tabular
\* result is not Tier A's success result.
Orig_C6_EmptyOutputIsFailure ==
    nAsks > 0 =>
        /\ (Called("generate") /\ askEnv.gen = EmptyOutput /\ askRes.kind = "response")
           => /\ askRes.answer # Generated(EmptyOutput)
              /\ askRes.analysis_type # "enhanced_pdf"
        /\ (Called("analyze") /\ TierAReturns(askEnv.tab)
              /\ askEnv.tab.model = EmptyOutput)
           => askRes.analysis_type # "enhanced_tabular"

\* C10: every entry of the tabular index carries a locator in its metadata:
\* none is stored with an empty blob_uri, whichever endpoint ingested it.
Orig_C10_TabularEntriesHaveLocator ==
    \A i \in 1..Len(ATTACHMENTS_TABULAR_IDX) :
        ATTACHMENTS_TABULAR_IDX[i].meta.blob_uri # <<>>

----------------------------------------------------------------------------
(* Claims about the intent router                                          *)

\* The response text is not parseable as the structured route/confidence object
Malformed(out) ==
    /\ out.kind = "text"
    /\ \/ out.parse # "object"
       \/ out.cnf # <<>> /\ out.cnf[1].t = "str"

WellFormed(out) == out.kind = "text" /\ ~Malformed(out)

\* C1: for every question (the empty one included) and every outcome of the
\* primary model call, classify_intent does not raise and returns one of the
\* four routes with a confidence in [0,1]; a parsed label outside the four
\* becomes unknown and a parsed confidence outside [0,1] is clamped to the
\* nearer end.
Thm_C1_RouteTotal ==
    rpc = "done" =>
        /\ ~routed.exc
        /\ routed.route \in Route
        /\ routed.conf.t = "num"
        /\ routed.conf.v >= 0
        /\ routed.conf.v <= 100
        /\ WellFormed(llmOut) =>
              /\ (llmOut.route # <<>> /\ Strip(llmOut.route[1]) \notin Route)
                    => routed.route = UNKNOWN
              /\ (llmOut.cnf # <<>> /\ llmOut.cnf[1].t = "num") =>
                    LET c == llmOut.cnf[1].v IN
                    /\ c < 0 => routed.conf.v = 0
                    /\ c > 100 => routed.conf.v = 100
                    /\ (c >= 0 /\ c <= 100) => routed.conf.v = c

\* C1 witness: the empty question, a parsed label outside the four with a
\* confidence of 2.5, answered (unknown, 1.0)
Wit_C1_Coerced ==
    /\ rpc = "done"
    /\ question = <<>>
    /\ llmOut.kind = "text"
    /\ llmOut.parse = "object"
    /\ llmOut.route = <<S_spreadsheet>>
    /\ llmOut.cnf = <<Num(250)>>
    /\ routed = Ret(UNKNOWN, Num(100))

\* C2: when the primary classifier is unavailable, the fallback decides on the
\* lowercased question in this order: blank gives (unknown, 0.0); else any
\* tabular hint gives (attachment_tabular, 0.7), also when 'attachment' or
\* 'pdf' occurs; else 'attachment' or 'pdf' gives (attachment_semantic, 0.6);
\* else (mail_body_semantic, 0.6).
Thm_C2_HeuristicPriority ==
    (rpc = "done" /\ llmOut.kind = "raise") =>
        LET q == Lower(question)
            blank == \A i \in 1..Len(q) : q[i] \in Whitespace
            hint == \E h \in TABULAR_HINTS : Contains(h, q)
            att == Contains(W_attachment, q) \/ Contains(W_pdf, q)
        IN  /\ blank => routed = Ret(UNKNOWN, Num(0))
            /\ (~blank /\ hint) => routed = Ret(ATTACHMENT_TABULAR, Num(70))
            /\ (~blank /\ ~hint /\ att) => routed = Ret(ATTACHMENT_SEMANTIC, Num(60))
            /\ (~blank /\ ~hint /\ ~att) => routed = Ret(MAIL_BODY_SEMANTIC, Num(60))
            /\ question = Q_average_by_region
                  => routed = Ret(ATTACHMENT_TABULAR, Num(70))

\* C2 witness: "SumPDF" holds a hint and 'pdf' (after lowercasing) and is
\* routed to attachment_tabular
Wit_C2_HintBeatsPdf ==
    /\ rpc = "done"
    /\ llmOut.kind = "raise"
    /\ question = F_Sum \o F_PDF
    /\ routed = Ret(ATTACHMENT_TABULAR, Num(70))

\* C3 as stated: whenever the primary call fails, a malformed response
\* included, classify_intent returns the keyword heuristic's result.
Orig_C3_MalformedUsesHeuristic ==
    (rpc = "done" /\ (llmOut.kind = "raise" \/ Malformed(llmOut)))
        => routed = _classify_intent_heuristic(question)

\* C3 amended: when the primary call raises, classify_intent returns the
\* keyword heuristic's result; when a response comes back malformed, it
\* returns the label found in the response text (attachment_tabular, else
\* attachment_semantic, else mail_body_semantic when the text holds that
\* label or 'mail') with confidence 0.6, or (unknown, 0.4) when none is found.
Thm_C3_FailureFallbacks ==
    rpc = "done" =>
        /\ llmOut.kind = "raise" => routed = _classify_intent_heuristic(question)
        /\ Malformed(llmOut) =>
              LET tab == InText(ATTACHMENT_TABULAR, llmOut)
                  sem == InText(ATTACHMENT_SEMANTIC, llmOut)
                  mail == InText(W_mail, llmOut)
              IN  /\ ~routed.exc
                  /\ routed.route = ATTACHMENT_TABULAR <=> tab
                  /\ routed.route = ATTACHMENT_SEMANTIC <=> (sem /\ ~tab)
                  /\ routed.route = MAIL_BODY_SEMANTIC <=> (mail /\ ~sem /\ ~tab)
                  /\ routed.route = UNKNOWN <=> (~mail /\ ~sem /\ ~tab)
                  /\ routed.conf = IF routed.route = UNKNOWN THEN Num(40) ELSE Num(60)

\* C3 witness: an unparseable response naming no label, on a question the
\* heuristic would route to attachment_tabular, is answered (unknown, 0.4)
Wit_C3_MalformedUnknown ==
    /\ rpc = "done"
    /\ llmOut.kind = "text"
    /\ llmOut.parse = "invalid"
    /\ llmOut.prose = S_spreadsheet
    /\ question = F_Sum
    /\ routed = Ret(UNKNOWN, Num(40))

====
